---- MODULE Spec2Model ----
(***************************************************************************)
(* Placeholder extraction (documentParser.js, parseDocument) and in-place  *)
(* substitution (aiService.js, generateFilledDocument) of the legal        *)
(* document assistant.  Strings are sequences of one-character strings and *)
(* every regular expression of the source is an operator over them.        *)
(* Offsets are 0-based as in JavaScript; the character at offset i of s is *)
(* s[i+1].                                                                 *)
(***************************************************************************)
EXTENDS Integers, Sequences, FiniteSets, TLC

VARIABLES
  pc,                   \* position inside parseDocument / generateFilledDocument
  text,                 \* plain-text rendition (mammoth.extractRawText)
  html,                 \* markup rendition (mammoth.convertToHtml)
  patIdx,               \* index of the pattern the forEach is at
  uniquePlaceholders,   \* insertion-ordered Set of keys
  placeholderFormatMap, \* key -> insertion-ordered Set of original formats
  blankPositions,       \* match offset -> blank key
  blankCounter,
  placeholderPositions, \* key -> first position
  sortedPlaceholders,
  placeholderObjects,   \* sequence of [key, label, position]
  docXml,               \* word/document.xml handed to generateFilledDocument
  filledValues,         \* insertion-ordered entries [key, value]
  filledXml,            \* the body being rewritten
  blankQueue,           \* sortedBlankPlaceholders still to process
  result,               \* the body generateFilledDocument returns
  previousRun,          \* what the previous call of parseDocument returned
  store,                \* useDocumentStore: the session
  uploads,              \* calls of handleFile that have not returned
  timers,               \* setTimeout(askNextQuestion) callbacks not yet run
  readers,              \* FileReader loads of a signature image not yet done
  questionCalls,        \* askNextQuestion calls awaiting a generated question
  showSignatureUpload,  \* ChatInterface: the signature section is shown
  uploadError,          \* DocumentUpload: the error shown
  uploadCount,          \* number of files handed to handleFile so far
  hfToken,              \* VITE_HF_TOKEN is configured
  session,              \* history: number of setPlaceholders and reset calls so far
  preview               \* DocumentPreview: generatePreview's locals

vars == <<pc, text, html, patIdx, uniquePlaceholders, placeholderFormatMap,
          blankPositions, blankCounter, placeholderPositions,
          sortedPlaceholders, placeholderObjects, docXml, filledValues,
          filledXml, blankQueue, result, previousRun,
          store, uploads, timers, readers, questionCalls, showSignatureUpload,
          uploadError, uploadCount, hfToken, session, preview>>

parseVars == <<text, html, patIdx, uniquePlaceholders, placeholderFormatMap,
               blankPositions, blankCounter, placeholderPositions,
               sortedPlaceholders, placeholderObjects>>

fillVars == <<docXml, filledValues, filledXml, blankQueue, result>>

\* everything outside parseDocument and generateFilledDocument
sessionVars == <<store, uploads, timers, readers, questionCalls,
                 showSignatureUpload, uploadError, uploadCount, hfToken, session>>

otherVars == <<previousRun, sessionVars, preview>>

----------------------------------------------------------------------------
(* Characters and JavaScript string primitives                             *)

UpperSeq == <<"A","B","C","D","E","F","G","H","I","J","K","L","M","N","O","P","Q","R","S","T","U","V","W","X","Y","Z">>
LowerSeq == <<"a","b","c","d","e","f","g","h","i","j","k","l","m","n","o","p","q","r","s","t","u","v","w","x","y","z">>
DigitSeq == <<"0","1","2","3","4","5","6","7","8","9">>

Range(s) == {s[i] : i \in DOMAIN s}

Upper == Range(UpperSeq)
Lower == Range(LowerSeq)
Letter == Upper \cup Lower
Digit == Range(DigitSeq)
Whitespace == {" ", "\t", "\n"}

Min(S) == CHOOSE x \in S : \A y \in S : x <= y
Max(S) == CHOOSE x \in S : \A y \in S : x >= y

\* String.prototype.toLowerCase / toUpperCase on one character
LowerChar(c) ==
  IF c \in Upper THEN LowerSeq[CHOOSE i \in 1..26 : UpperSeq[i] = c] ELSE c

UpperChar(c) ==
  IF c \in Lower THEN UpperSeq[CHOOSE i \in 1..26 : LowerSeq[i] = c] ELSE c

ToLowerCase(s) == [i \in 1..Len(s) |-> LowerChar(s[i])]

\* s.substring(a, b) with 0-based a (inclusive) and b (exclusive)
Substring(s, a, b) ==
  LET lo == IF a < 0 THEN 0 ELSE IF a > Len(s) THEN Len(s) ELSE a
      hi == IF b < 0 THEN 0 ELSE IF b > Len(s) THEN Len(s) ELSE b
  IN IF lo >= hi THEN <<>> ELSE SubSeq(s, lo + 1, hi)

\* does needle occur in s at offset i (case-sensitively / ignoring case)
OccursAt(s, needle, i) ==
  /\ i >= 0
  /\ i + Len(needle) <= Len(s)
  /\ \A j \in 1..Len(needle) : s[i + j] = needle[j]

OccursAtCI(s, needle, i) ==
  /\ i >= 0
  /\ i + Len(needle) <= Len(s)
  /\ \A j \in 1..Len(needle) : LowerChar(s[i + j]) = LowerChar(needle[j])

\* s.includes(needle)
Includes(s, needle) == \E i \in 0..Len(s) : OccursAt(s, needle, i)

\* s.endsWith(needle)
EndsWith(s, needle) == OccursAt(s, needle, Len(s) - Len(needle))

\* s.search(new RegExp(escaped literal, 'gi')): first offset or -1
SearchCI(s, needle) ==
  IF \E i \in 0..Len(s) : OccursAtCI(s, needle, i)
  THEN Min({i \in 0..Len(s) : OccursAtCI(s, needle, i)})
  ELSE -1

\* s.trim(), s.trimRight()
TrimRight(s) ==
  IF \A i \in 1..Len(s) : s[i] \in Whitespace THEN <<>>
  ELSE SubSeq(s, 1, Max({i \in 1..Len(s) : s[i] \notin Whitespace}))

TrimLeft(s) ==
  IF \A i \in 1..Len(s) : s[i] \in Whitespace THEN <<>>
  ELSE SubSeq(s, Min({i \in 1..Len(s) : s[i] \notin Whitespace}), Len(s))

Trim(s) == TrimLeft(TrimRight(s))

\* decimal rendering of a natural number ('blank_' + blankCounter)
RECURSIVE ToDecimal(_)
ToDecimal(n) ==
  IF n < 10 THEN <<DigitSeq[n + 1]>>
  ELSE ToDecimal(n \div 10) \o <<DigitSeq[(n % 10) + 1]>>

\* parseInt of a string of digits
RECURSIVE ParseInt(_)
ParseInt(s) ==
  IF s = <<>> THEN 0
  ELSE 10 * ParseInt(SubSeq(s, 1, Len(s) - 1))
       + ((CHOOSE i \in 1..10 : DigitSeq[i] = s[Len(s)]) - 1)

\* concatenation of a sequence of strings
RECURSIVE Flatten(_)
Flatten(ss) ==
  IF Len(ss) = 0 THEN <<>>
  ELSE IF Len(ss) = 1 THEN ss[1]
  ELSE LET h == Len(ss) \div 2
       IN Flatten(SubSeq(ss, 1, h)) \o Flatten(SubSeq(ss, h + 1, Len(ss)))

\* value.replace(/&/g,'&amp;').replace(/</g,'&lt;').replace(/>/g,'&gt;')
EscapeXml(v) ==
  Flatten([i \in 1..Len(v) |->
             CASE v[i] = "&" -> <<"&","a","m","p",";">>
               [] v[i] = "<" -> <<"&","l","t",";">>
               [] v[i] = ">" -> <<"&","g","t",";">>
               [] OTHER -> <<v[i]>>])

\* end (exclusive, 0-based) of the longest run of characters of class C
\* that starts at offset i
RunEnd(s, i, C) ==
  Min({k \in i..Len(s) : k = Len(s) \/ s[k + 1] \notin C})

----------------------------------------------------------------------------
(* documentParser.js: the two placeholder patterns                          *)

BlankChars == {"_", "-"}
IdentStart == Letter \cup {"_"}
IdentChars == Letter \cup Digit \cup {"_", "-"} \cup Whitespace

\* /\[([a-zA-Z_][a-zA-Z0-9_\s-]*)\]/g at offset i: end offset of the match
\* (exclusive) or -1.  "]" is outside the class, so the greedy run is the
\* only candidate.
IdentMatchEnd(s, i) ==
  IF /\ i + 1 < Len(s)
     /\ s[i + 1] = "["
     /\ s[i + 2] \in IdentStart
  THEN LET e == RunEnd(s, i + 2, IdentChars)
       IN IF e < Len(s) /\ s[e + 1] = "]" THEN e + 1 ELSE -1
  ELSE -1

\* /\[([_\-]{3,})\]/g at offset i
BlankMatchEnd(s, i) ==
  IF i < Len(s) /\ s[i + 1] = "["
  THEN LET e == RunEnd(s, i + 1, BlankChars)
       IN IF e - (i + 1) >= 3 /\ e < Len(s) /\ s[e + 1] = "]"
          THEN e + 1 ELSE -1
  ELSE -1

PatternMatchEnd(p, s, i) ==
  IF p = 1 THEN IdentMatchEnd(s, i) ELSE BlankMatchEnd(s, i)

\* the offsets pattern.exec(s) returns in a while loop, in order.  A match
\* holds exactly one "[", so matches never overlap and lastIndex skips none.
RECURSIVE SeqOfSet(_)
SeqOfSet(S) ==
  IF S = {} THEN <<>> ELSE <<Min(S)>> \o SeqOfSet(S \ {Min(S)})

MatchOffsets(p, s) ==
  SeqOfSet({i \in 0..Len(s) : PatternMatchEnd(p, s, i) # -1})

\* /^[_\-]{3,}$/.test(rawName)
IsBlankRun(rawName) ==
  Len(rawName) >= 3 /\ \A i \in 1..Len(rawName) : rawName[i] \in BlankChars

\* /^\d+$/.test(rawName)
IsNumeric(rawName) ==
  Len(rawName) >= 1 /\ \A i \in 1..Len(rawName) : rawName[i] \in Digit

BlankPrefix == <<"b","l","a","n","k","_">>

\* /^blank_\d+$/.test(key)
IsBlankKey(key) ==
  /\ Len(key) > Len(BlankPrefix)
  /\ SubSeq(key, 1, Len(BlankPrefix)) = BlankPrefix
  /\ IsNumeric(SubSeq(key, Len(BlankPrefix) + 1, Len(key)))

\* parseInt(placeholderKey.match(/\d+$/)[0])
BlankNumber(key) == ParseInt(SubSeq(key, Len(BlankPrefix) + 1, Len(key)))

\* rawName.replace(/\s+/g, '_')
RECURSIVE CollapseWhitespace(_)
CollapseWhitespace(s) ==
  IF s = <<>> THEN <<>>
  ELSE IF Head(s) \in Whitespace
       THEN <<"_">> \o CollapseWhitespace(
                          SubSeq(s, RunEnd(s, 0, Whitespace) + 1, Len(s)))
       ELSE <<Head(s)>> \o CollapseWhitespace(Tail(s))

HyphensToUnderscores(s) == [i \in 1..Len(s) |-> IF s[i] = "-" THEN "_" ELSE s[i]]

\* normalization that leaves hyphens in place
NormalizeNameKeepHyphens(rawName) ==
  ToLowerCase(CollapseWhitespace(rawName))

\* rawName.replace(/\s+/g, '_').replace(/-/g, '_').toLowerCase()
NormalizeName(rawName) ==
  ToLowerCase(HyphensToUnderscores(CollapseWhitespace(rawName)))

excludedWords ==
  { <<"t","h","e">>, <<"a">>, <<"a","n">>, <<"a","n","d">>, <<"o","r">>, <<"o","f">>, <<"t","o">>, <<"i","n">>,
    <<"f","o","r">>, <<"w","i","t","h">>, <<"o","n">>, <<"a","t">>, <<"f","r","o","m">>, <<"b","y">> }

\* validation that consults no stop-word set
IsValidPlaceholderNoStopWords(placeholderName, rawName) ==
  \/ IsBlankKey(placeholderName)
  \/ /\ Len(placeholderName) >= 2
     /\ ~IsNumeric(rawName)

\* isValid of the text scan
IsValidPlaceholder(placeholderName, rawName) ==
  \/ IsBlankKey(placeholderName)
  \/ /\ Len(placeholderName) >= 2
     /\ ~IsNumeric(rawName)
     /\ ToLowerCase(placeholderName) \notin excludedWords

\* Set.prototype.add on an insertion-ordered set
SetAdd(seq, x) == IF x \in Range(seq) THEN seq ELSE Append(seq, x)

\* Map.prototype.set
MapSet(m, k, v) == [x \in DOMAIN m \cup {k} |-> IF x = k THEN v ELSE m[x]]

\* state threaded through one exec loop
ScanState(u, f, b, c) == [unique |-> u, formats |-> f, blankPos |-> b, counter |-> c]

\* text scan step that records a format only when it first sees the key
TextMatchStepFirstFormatOnly(st, s, p, off) ==
  LET e == PatternMatchEnd(p, s, off)
      originalFormat == Substring(s, off, e)
      rawName == Trim(Substring(s, off + 1, e - 1))
      isBlankRun == IsBlankRun(rawName)
      minted == isBlankRun /\ off \notin DOMAIN st.blankPos
      placeholderName ==
        IF isBlankRun
        THEN IF minted THEN BlankPrefix \o ToDecimal(st.counter)
             ELSE st.blankPos[off]
        ELSE NormalizeName(rawName)
      counter1 == IF minted THEN st.counter + 1 ELSE st.counter
      blankPos1 == IF minted THEN MapSet(st.blankPos, off, placeholderName)
                   ELSE st.blankPos
      isValid == IsValidPlaceholder(placeholderName, rawName)
      formats0 == IF placeholderName \in DOMAIN st.formats THEN st.formats
                  ELSE MapSet(st.formats, placeholderName, <<>>)
  IN IF isValid
     THEN ScanState(SetAdd(st.unique, placeholderName),
                    IF placeholderName \in DOMAIN st.formats THEN st.formats
                    ELSE MapSet(formats0, placeholderName, <<originalFormat>>),
                    blankPos1, counter1)
     ELSE ScanState(st.unique, st.formats, blankPos1, counter1)

\* body of the while loop of the text scan for the match at offset off
TextMatchStep(st, s, p, off) ==
  LET e == PatternMatchEnd(p, s, off)
      originalFormat == Substring(s, off, e)
      rawName == Trim(Substring(s, off + 1, e - 1))
      isBlankRun == IsBlankRun(rawName)
      minted == isBlankRun /\ off \notin DOMAIN st.blankPos
      placeholderName ==
        IF isBlankRun
        THEN IF minted THEN BlankPrefix \o ToDecimal(st.counter)
             ELSE st.blankPos[off]
        ELSE NormalizeName(rawName)
      counter1 == IF minted THEN st.counter + 1 ELSE st.counter
      blankPos1 == IF minted THEN MapSet(st.blankPos, off, placeholderName)
                   ELSE st.blankPos
      isValid == IsValidPlaceholder(placeholderName, rawName)
      formats0 == IF placeholderName \in DOMAIN st.formats THEN st.formats
                  ELSE MapSet(st.formats, placeholderName, <<>>)
  IN IF isValid
     THEN ScanState(SetAdd(st.unique, placeholderName),
                    MapSet(formats0, placeholderName,
                           SetAdd(formats0[placeholderName], originalFormat)),
                    blankPos1, counter1)
     ELSE ScanState(st.unique, st.formats, blankPos1, counter1)

RECURSIVE TextScan(_, _, _, _)
TextScan(st, s, p, offs) ==
  IF offs = <<>> THEN st
  ELSE TextScan(TextMatchStep(st, s, p, Head(offs)), s, p, Tail(offs))

\* body of the while loop of the HTML scan: formats are only added to keys
\* the text scan found, blank runs are skipped
HtmlMatchStep(st, s, p, off) ==
  LET e == PatternMatchEnd(p, s, off)
      originalFormat == Substring(s, off, e)
      rawName == Trim(Substring(s, off + 1, e - 1))
      placeholderName == NormalizeName(rawName)
      isValid == /\ ~IsBlankKey(placeholderName)
                 /\ Len(placeholderName) >= 2
                 /\ ~IsNumeric(rawName)
                 /\ ToLowerCase(placeholderName) \notin excludedWords
  IN IF ~IsBlankRun(rawName) /\ isValid /\ placeholderName \in Range(st.unique)
     THEN ScanState(st.unique,
                    MapSet(st.formats, placeholderName,
                           SetAdd(st.formats[placeholderName], originalFormat)),
                    st.blankPos, st.counter)
     ELSE st

RECURSIVE HtmlScan(_, _, _, _)
HtmlScan(st, s, p, offs) ==
  IF offs = <<>> THEN st
  ELSE HtmlScan(HtmlMatchStep(st, s, p, Head(offs)), s, p, Tail(offs))

----------------------------------------------------------------------------
(* documentParser.js: first positions and document order                   *)

\* value stored when no position was located, and the value the sort
\* comparator substitutes for a falsy position
NotLocated == 999999

SeparatorClass == Whitespace \cup {"_", "-"}

\* offsets at which the rest key[j..] of the pattern
\* placeholderKey.replace(/_/g, '[\\s_-]*') can end when it starts at offset
\* i (flags 'gi': letters compare ignoring case)
RECURSIVE KeyPatternEnds(_, _, _, _)
KeyPatternEnds(s, i, key, j) ==
  IF j > Len(key) THEN {i}
  ELSE IF key[j] = "_"
       THEN UNION {KeyPatternEnds(s, k, key, j + 1) :
                     k \in i..RunEnd(s, i, SeparatorClass)}
       ELSE IF i < Len(s) /\ LowerChar(s[i + 1]) = LowerChar(key[j])
            THEN KeyPatternEnds(s, i + 1, key, j + 1)
            ELSE {}

\* new RegExp(`\\[${normalizedKey}\\]`, 'gi') matches at offset i
BracketKeyMatchAt(s, i, key) ==
  /\ i < Len(s) /\ s[i + 1] = "["
  /\ \E e \in KeyPatternEnds(s, i + 1, key, 1) : e < Len(s) /\ s[e + 1] = "]"

\* new RegExp(`\\{\\{?${normalizedKey}\\}?\\}`, 'gi') matches at offset i
BraceKeyMatchAt(s, i, key) ==
  /\ i < Len(s) /\ s[i + 1] = "{"
  /\ \E b \in {i + 1} \cup (IF i + 1 < Len(s) /\ s[i + 2] = "{" THEN {i + 2} ELSE {}) :
       \E e \in KeyPatternEnds(s, b, key, 1) :
         \/ e < Len(s) /\ s[e + 1] = "}"
         \/ e + 1 < Len(s) /\ s[e + 1] = "}" /\ s[e + 2] = "}"

\* body of placeholdersArray.forEach: the position stored for one key
FirstPosition(s, formats, key) ==
  LET formatHits == {SearchCI(s, formats[key][n]) : n \in 1..Len(formats[key])} \ {-1}
      blanks == MatchOffsets(2, s)
      keyHits == {i \in 0..Len(s) : BracketKeyMatchAt(s, i, key) \/ BraceKeyMatchAt(s, i, key)}
      hits == IF IsBlankKey(key) THEN formatHits ELSE formatHits \cup keyHits
  IN IF IsBlankKey(key) /\ BlankNumber(key) < Len(blanks)
     THEN blanks[BlankNumber(key) + 1]
     ELSE IF hits = {} THEN NotLocated ELSE Min(hits)

\* placeholderPositions.get(a) || 999999
SortPosition(positions, key) ==
  IF positions[key] = 0 THEN NotLocated ELSE positions[key]

\* [...placeholdersArray].sort((a, b) => posA - posB), a stable sort
RECURSIVE SortByPosition(_, _)
SortByPosition(keys, positions) ==
  IF keys = <<>> THEN <<>>
  ELSE LET best == Min({SortPosition(positions, keys[i]) : i \in 1..Len(keys)})
           at == Min({i \in 1..Len(keys) : SortPosition(positions, keys[i]) = best})
       IN <<keys[at]>> \o
          SortByPosition(SubSeq(keys, 1, at - 1) \o SubSeq(keys, at + 1, Len(keys)),
                         positions)

----------------------------------------------------------------------------
(* documentParser.js: labels                                               *)

Quotes == {"\"", "'"}

\* end of the longest run of characters outside class C starting at i
RunEndNot(s, i, C) ==
  Min({k \in i..Len(s) : k = Len(s) \/ s[k + 1] \in C})

\* s.split(/\s+/) of a trimmed string
RECURSIVE SplitWords(_)
SplitWords(s) ==
  IF s = <<>> THEN <<>>
  ELSE LET e == RunEndNot(s, 0, Whitespace)
           next == RunEnd(s, e, Whitespace)
       IN <<SubSeq(s, 1, e)>> \o SplitWords(SubSeq(s, next + 1, Len(s)))

\* s.split('_')
RECURSIVE SplitUnderscore(_)
SplitUnderscore(s) ==
  LET e == RunEndNot(s, 0, {"_"})
  IN IF e = Len(s) THEN <<s>>
     ELSE <<SubSeq(s, 1, e)>> \o SplitUnderscore(SubSeq(s, e + 2, Len(s)))

\* w.charAt(0).toUpperCase() + w.slice(1).toLowerCase()
Capitalize(w) ==
  IF w = <<>> THEN <<>>
  ELSE <<UpperChar(w[1])>> \o ToLowerCase(SubSeq(w, 2, Len(w)))

\* parts.join(sep)
RECURSIVE Join(_, _)
Join(parts, sep) ==
  IF parts = <<>> THEN <<>>
  ELSE IF Len(parts) = 1 THEN parts[1]
  ELSE parts[1] \o sep \o Join(Tail(parts), sep)

\* fieldName.split(/\s+/).map(capitalize).join(' ')
TitleCase(fieldName) ==
  LET words == SplitWords(fieldName)
  IN Join([i \in 1..Len(words) |-> Capitalize(words[i])], <<" ">>)

NoMatch == [found |-> FALSE, term |-> <<>>]

\* /\$\s*\[[_\-]+\]\s*\(?\s*the\s*["']?([^"']+)["']?\s*\)?/i anchored at
\* offset i: capture group 1.  After "the" the engine first tries the
\* longest whitespace run with the optional quote, then gives whitespace
\* back to the capture group.
DollarTermAt(s, i) ==
  IF ~(i < Len(s) /\ s[i + 1] = "$") THEN NoMatch
  ELSE
   LET j == RunEnd(s, i + 1, Whitespace)
   IN IF ~(j < Len(s) /\ s[j + 1] = "[") THEN NoMatch
      ELSE
       LET k == RunEnd(s, j + 1, BlankChars)
       IN IF ~(k > j + 1 /\ k < Len(s) /\ s[k + 1] = "]") THEN NoMatch
          ELSE
           LET m == RunEnd(s, k + 1, Whitespace)
               t == IF m < Len(s) /\ s[m + 1] = "("
                    THEN RunEnd(s, m + 1, Whitespace) ELSE m
           IN IF ~OccursAtCI(s, <<"t","h","e">>, t) THEN NoMatch
              ELSE
               LET a == t + 3
                   w == RunEnd(s, a, Whitespace)
                   c == IF w < Len(s) /\ s[w + 1] \in Quotes THEN w + 1 ELSE w
                   r == RunEndNot(s, c, Quotes)
               IN IF r > c THEN [found |-> TRUE, term |-> Substring(s, c, r)]
                  ELSE IF w > a
                       THEN [found |-> TRUE,
                             term |-> Substring(s, w - 1, RunEndNot(s, w - 1, Quotes))]
                       ELSE NoMatch

\* contextBefore.match(...) : the leftmost match
DollarTermMatch(s) ==
  LET hits == {i \in 0..Len(s) : DollarTermAt(s, i).found}
  IN IF hits = {} THEN NoMatch ELSE DollarTermAt(s, Min(hits))

\* /\(?\s*the\s*["']([^"']+)["']\s*\)?/i with "the" at offset t
QuoteTermAt(s, t) ==
  IF ~OccursAtCI(s, <<"t","h","e">>, t) THEN NoMatch
  ELSE LET w == RunEnd(s, t + 3, Whitespace)
       IN IF ~(w < Len(s) /\ s[w + 1] \in Quotes) THEN NoMatch
          ELSE LET r == RunEndNot(s, w + 1, Quotes)
               IN IF r > w + 1 /\ r < Len(s)
                  THEN [found |-> TRUE, term |-> Substring(s, w + 1, r)]
                  ELSE NoMatch

\* contextAfter.match(...): the leftmost match is the one of the leftmost
\* "the" that is followed by a quoted term
QuoteTermMatch(s) ==
  LET hits == {t \in 0..Len(s) : QuoteTermAt(s, t).found}
  IN IF hits = {} THEN NoMatch ELSE QuoteTermAt(s, Min(hits))

\* hasDollarBefore
HasDollarBefore(contextBefore) ==
  LET tr == TrimRight(contextBefore)
  IN \/ EndsWith(Trim(contextBefore), <<"$">>)
     \/ /\ Len(tr) >= 2 /\ tr[Len(tr)] = "$" /\ tr[Len(tr) - 1] \notin Letter
     \/ \E i \in 0..Len(contextBefore) :
          /\ i < Len(contextBefore) /\ contextBefore[i + 1] = "$"
          /\ LET j == RunEnd(contextBefore, i + 1, Whitespace)
                 k == RunEnd(contextBefore, j + 1, BlankChars)
             IN /\ j < Len(contextBefore) /\ contextBefore[j + 1] = "["
                /\ k > j + 1
                /\ k < Len(contextBefore) /\ contextBefore[k + 1] = "]"
                /\ RunEnd(contextBefore, k + 1, Whitespace) = Len(contextBefore)

ContextWindow == 200

\* the cascade with the trailing quoted term looked at before the currency
\* classification
BlankLabelQuotedTermFirst(s, key, position) ==
  LET contextBefore == Substring(s, IF position - ContextWindow < 0 THEN 0
                                    ELSE position - ContextWindow, position)
      contextAfter == Substring(s, position,
                                IF position + ContextWindow > Len(s) THEN Len(s)
                                ELSE position + ContextWindow)
      fullContext == ToLowerCase(contextBefore \o <<" ">> \o contextAfter)
      dollarMatch == DollarTermMatch(contextBefore)
      quoteMatch == QuoteTermMatch(contextAfter)
  IN
  IF dollarMatch.found THEN TitleCase(Trim(dollarMatch.term))
  ELSE IF quoteMatch.found THEN TitleCase(Trim(quoteMatch.term))
  ELSE IF HasDollarBefore(contextBefore) THEN
    IF \/ Includes(contextAfter, <<"P","o","s","t","-","M","o","n","e","y"," ","V","a","l","u","a","t","i","o","n"," ","C","a","p">>)
       \/ Includes(contextAfter, <<"P","o","s","t","-","M","o","n","e","y">>)
       \/ Includes(fullContext, <<"p","o","s","t","-","m","o","n","e","y"," ","v","a","l","u","a","t","i","o","n"," ","c","a","p">>)
       \/ Includes(fullContext, <<"\"","P","o","s","t","-","M","o","n","e","y"," ","V","a","l","u","a","t","i","o","n"," ","C","a","p","\"">>)
    THEN <<"P","o","s","t","-","M","o","n","e","y"," ","V","a","l","u","a","t","i","o","n"," ","C","a","p">>
    ELSE IF \/ Includes(contextAfter, <<"P","u","r","c","h","a","s","e"," ","A","m","o","u","n","t">>)
            \/ Includes(contextAfter, <<"(","t","h","e"," ","\"","P","u","r","c","h","a","s","e"," ","A","m","o","u","n","t","\"",")">>)
            \/ Includes(fullContext, <<"p","u","r","c","h","a","s","e"," ","a","m","o","u","n","t">>)
            \/ Includes(contextBefore, <<"p","a","y","m","e","n","t"," ","b","y">>)
            \/ Includes(contextBefore, <<"e","x","c","h","a","n","g","e"," ","f","o","r">>)
    THEN <<"P","u","r","c","h","a","s","e"," ","A","m","o","u","n","t">>
    ELSE IF Includes(fullContext, <<"v","a","l","u","a","t","i","o","n"," ","c","a","p">>) /\ ~Includes(fullContext, <<"p","o","s","t","-","m","o","n","e","y">>)
    THEN <<"V","a","l","u","a","t","i","o","n"," ","C","a","p">>
    ELSE IF Includes(fullContext, <<"d","i","s","c","o","u","n","t"," ","r","a","t","e">>) \/ Includes(fullContext, <<"d","i","s","c","o","u","n","t">>)
    THEN <<"D","i","s","c","o","u","n","t"," ","R","a","t","e">>
    ELSE <<"A","m","o","u","n","t">>
  ELSE IF \/ Includes(contextBefore, <<"o","n"," ","o","r"," ","a","b","o","u","t">>)
          \/ Includes(contextBefore, <<"d","a","t","e"," ","o","f"," ","s","a","f","e">>)
          \/ Includes(contextBefore, <<"e","f","f","e","c","t","i","v","e"," ","d","a","t","e">>)
          \/ Includes(fullContext, <<"d","a","t","e">>)
  THEN IF Includes(fullContext, <<"s","a","f","e">>) THEN <<"D","a","t","e"," ","o","f"," ","S","a","f","e">>
       ELSE IF Includes(fullContext, <<"e","f","f","e","c","t","i","v","e">>) THEN <<"E","f","f","e","c","t","i","v","e"," ","D","a","t","e">>
       ELSE <<"D","a","t","e">>
  ELSE IF \/ Includes(fullContext, <<"s","t","a","t","e"," ","o","f"," ","i","n","c","o","r","p","o","r","a","t","i","o","n">>)
          \/ (Includes(contextBefore, <<"a"," ">>) /\ Includes(contextAfter, <<"c","o","r","p","o","r","a","t","i","o","n">>))
  THEN <<"S","t","a","t","e"," ","o","f"," ","I","n","c","o","r","p","o","r","a","t","i","o","n">>
  ELSE IF Includes(fullContext, <<"g","o","v","e","r","n","i","n","g"," ","l","a","w">>) \/ Includes(fullContext, <<"l","a","w","s"," ","o","f"," ","t","h","e"," ","s","t","a","t","e"," ","o","f">>)
  THEN <<"G","o","v","e","r","n","i","n","g"," ","L","a","w"," ","J","u","r","i","s","d","i","c","t","i","o","n">>
  ELSE IF quoteMatch.found THEN TitleCase(Trim(quoteMatch.term))
  ELSE IF Includes(fullContext, <<"p","u","r","c","h","a","s","e"," ","a","m","o","u","n","t">>) THEN <<"P","u","r","c","h","a","s","e"," ","A","m","o","u","n","t">>
  ELSE IF Includes(fullContext, <<"v","a","l","u","a","t","i","o","n"," ","c","a","p">>) \/ Includes(fullContext, <<"p","o","s","t","-","m","o","n","e","y"," ","v","a","l","u","a","t","i","o","n">>)
  THEN <<"P","o","s","t","-","M","o","n","e","y"," ","V","a","l","u","a","t","i","o","n"," ","C","a","p">>
  ELSE IF Includes(fullContext, <<"d","i","s","c","o","u","n","t"," ","r","a","t","e">>) \/ Includes(fullContext, <<"d","i","s","c","o","u","n","t">>)
  THEN <<"D","i","s","c","o","u","n","t"," ","R","a","t","e">>
  ELSE IF Includes(fullContext, <<"i","n","v","e","s","t","o","r"," ","n","a","m","e">>) THEN <<"I","n","v","e","s","t","o","r"," ","N","a","m","e">>
  ELSE IF Includes(fullContext, <<"c","o","m","p","a","n","y"," ","n","a","m","e">>) THEN <<"C","o","m","p","a","n","y"," ","N","a","m","e">>
  ELSE <<"F","i","e","l","d"," ">> \o SubSeq(key, Len(BlankPrefix) + 1, Len(key))

\* the label cascade of a blank key whose stored position is `position`
BlankLabel(s, key, position) ==
  LET contextBefore == Substring(s, IF position - ContextWindow < 0 THEN 0
                                    ELSE position - ContextWindow, position)
      contextAfter == Substring(s, position,
                                IF position + ContextWindow > Len(s) THEN Len(s)
                                ELSE position + ContextWindow)
      fullContext == ToLowerCase(contextBefore \o <<" ">> \o contextAfter)
      dollarMatch == DollarTermMatch(contextBefore)
      quoteMatch == QuoteTermMatch(contextAfter)
  IN
  IF dollarMatch.found THEN TitleCase(Trim(dollarMatch.term))
  ELSE IF HasDollarBefore(contextBefore) THEN
    IF \/ Includes(contextAfter, <<"P","o","s","t","-","M","o","n","e","y"," ","V","a","l","u","a","t","i","o","n"," ","C","a","p">>)
       \/ Includes(contextAfter, <<"P","o","s","t","-","M","o","n","e","y">>)
       \/ Includes(fullContext, <<"p","o","s","t","-","m","o","n","e","y"," ","v","a","l","u","a","t","i","o","n"," ","c","a","p">>)
       \/ Includes(fullContext, <<"\"","P","o","s","t","-","M","o","n","e","y"," ","V","a","l","u","a","t","i","o","n"," ","C","a","p","\"">>)
    THEN <<"P","o","s","t","-","M","o","n","e","y"," ","V","a","l","u","a","t","i","o","n"," ","C","a","p">>
    ELSE IF \/ Includes(contextAfter, <<"P","u","r","c","h","a","s","e"," ","A","m","o","u","n","t">>)
            \/ Includes(contextAfter, <<"(","t","h","e"," ","\"","P","u","r","c","h","a","s","e"," ","A","m","o","u","n","t","\"",")">>)
            \/ Includes(fullContext, <<"p","u","r","c","h","a","s","e"," ","a","m","o","u","n","t">>)
            \/ Includes(contextBefore, <<"p","a","y","m","e","n","t"," ","b","y">>)
            \/ Includes(contextBefore, <<"e","x","c","h","a","n","g","e"," ","f","o","r">>)
    THEN <<"P","u","r","c","h","a","s","e"," ","A","m","o","u","n","t">>
    ELSE IF Includes(fullContext, <<"v","a","l","u","a","t","i","o","n"," ","c","a","p">>) /\ ~Includes(fullContext, <<"p","o","s","t","-","m","o","n","e","y">>)
    THEN <<"V","a","l","u","a","t","i","o","n"," ","C","a","p">>
    ELSE IF Includes(fullContext, <<"d","i","s","c","o","u","n","t"," ","r","a","t","e">>) \/ Includes(fullContext, <<"d","i","s","c","o","u","n","t">>)
    THEN <<"D","i","s","c","o","u","n","t"," ","R","a","t","e">>
    ELSE <<"A","m","o","u","n","t">>
  ELSE IF \/ Includes(contextBefore, <<"o","n"," ","o","r"," ","a","b","o","u","t">>)
          \/ Includes(contextBefore, <<"d","a","t","e"," ","o","f"," ","s","a","f","e">>)
          \/ Includes(contextBefore, <<"e","f","f","e","c","t","i","v","e"," ","d","a","t","e">>)
          \/ Includes(fullContext, <<"d","a","t","e">>)
  THEN IF Includes(fullContext, <<"s","a","f","e">>) THEN <<"D","a","t","e"," ","o","f"," ","S","a","f","e">>
       ELSE IF Includes(fullContext, <<"e","f","f","e","c","t","i","v","e">>) THEN <<"E","f","f","e","c","t","i","v","e"," ","D","a","t","e">>
       ELSE <<"D","a","t","e">>
  ELSE IF \/ Includes(fullContext, <<"s","t","a","t","e"," ","o","f"," ","i","n","c","o","r","p","o","r","a","t","i","o","n">>)
          \/ (Includes(contextBefore, <<"a"," ">>) /\ Includes(contextAfter, <<"c","o","r","p","o","r","a","t","i","o","n">>))
  THEN <<"S","t","a","t","e"," ","o","f"," ","I","n","c","o","r","p","o","r","a","t","i","o","n">>
  ELSE IF Includes(fullContext, <<"g","o","v","e","r","n","i","n","g"," ","l","a","w">>) \/ Includes(fullContext, <<"l","a","w","s"," ","o","f"," ","t","h","e"," ","s","t","a","t","e"," ","o","f">>)
  THEN <<"G","o","v","e","r","n","i","n","g"," ","L","a","w"," ","J","u","r","i","s","d","i","c","t","i","o","n">>
  ELSE IF quoteMatch.found THEN TitleCase(Trim(quoteMatch.term))
  ELSE IF Includes(fullContext, <<"p","u","r","c","h","a","s","e"," ","a","m","o","u","n","t">>) THEN <<"P","u","r","c","h","a","s","e"," ","A","m","o","u","n","t">>
  ELSE IF Includes(fullContext, <<"v","a","l","u","a","t","i","o","n"," ","c","a","p">>) \/ Includes(fullContext, <<"p","o","s","t","-","m","o","n","e","y"," ","v","a","l","u","a","t","i","o","n">>)
  THEN <<"P","o","s","t","-","M","o","n","e","y"," ","V","a","l","u","a","t","i","o","n"," ","C","a","p">>
  ELSE IF Includes(fullContext, <<"d","i","s","c","o","u","n","t"," ","r","a","t","e">>) \/ Includes(fullContext, <<"d","i","s","c","o","u","n","t">>)
  THEN <<"D","i","s","c","o","u","n","t"," ","R","a","t","e">>
  ELSE IF Includes(fullContext, <<"i","n","v","e","s","t","o","r"," ","n","a","m","e">>) THEN <<"I","n","v","e","s","t","o","r"," ","N","a","m","e">>
  ELSE IF Includes(fullContext, <<"c","o","m","p","a","n","y"," ","n","a","m","e">>) THEN <<"C","o","m","p","a","n","y"," ","N","a","m","e">>
  ELSE <<"F","i","e","l","d"," ">> \o SubSeq(key, Len(BlankPrefix) + 1, Len(key))

\* safeFieldLabels
safeFieldLabels ==
  << <<<<"c","o","m","p","a","n","y">>, <<"C","o","m","p","a","n","y"," ","N","a","m","e">>>>,
     <<<<"c","o","m","p","a","n","y","_","b","y">>, <<"C","o","m","p","a","n","y"," ","S","i","g","n","a","t","u","r","e"," ","L","i","n","e">>>>,
     <<<<"c","o","m","p","a","n","y","_","n","a","m","e">>, <<"C","o","m","p","a","n","y"," ","S","i","g","n","a","t","o","r","y"," ","N","a","m","e">>>>,
     <<<<"c","o","m","p","a","n","y","_","t","i","t","l","e">>, <<"C","o","m","p","a","n","y"," ","S","i","g","n","a","t","o","r","y"," ","T","i","t","l","e">>>>,
     <<<<"c","o","m","p","a","n","y","_","a","d","d","r","e","s","s">>, <<"C","o","m","p","a","n","y"," ","A","d","d","r","e","s","s">>>>,
     <<<<"c","o","m","p","a","n","y","_","e","m","a","i","l">>, <<"C","o","m","p","a","n","y"," ","E","m","a","i","l">>>>,
     <<<<"i","n","v","e","s","t","o","r","_","b","y">>, <<"I","n","v","e","s","t","o","r"," ","S","i","g","n","a","t","u","r","e"," ","L","i","n","e">>>>,
     <<<<"i","n","v","e","s","t","o","r","_","n","a","m","e">>, <<"I","n","v","e","s","t","o","r"," ","N","a","m","e">>>>,
     <<<<"i","n","v","e","s","t","o","r","_","t","i","t","l","e">>, <<"I","n","v","e","s","t","o","r"," ","T","i","t","l","e">>>>,
     <<<<"i","n","v","e","s","t","o","r","_","a","d","d","r","e","s","s">>, <<"I","n","v","e","s","t","o","r"," ","A","d","d","r","e","s","s">>>>,
     <<<<"i","n","v","e","s","t","o","r","_","e","m","a","i","l">>, <<"I","n","v","e","s","t","o","r"," ","E","m","a","i","l">>>>,
     <<<<"b","y">>, <<"S","i","g","n","a","t","u","r","e"," ","L","i","n","e">>>>,
     <<<<"n","a","m","e">>, <<"N","a","m","e">>>>,
     <<<<"t","i","t","l","e">>, <<"T","i","t","l","e">>>>,
     <<<<"a","d","d","r","e","s","s">>, <<"A","d","d","r","e","s","s">>>>,
     <<<<"e","m","a","i","l">>, <<"E","m","a","i","l">>>> >>

\* the label of a named key
NamedLabel(key) ==
  LET parts == SplitUnderscore(key)
      titled(ps) == Join([i \in 1..Len(ps) |-> Capitalize(ps[i])], <<" ">>)
  IN IF \E i \in 1..Len(safeFieldLabels) : safeFieldLabels[i][1] = key
     THEN safeFieldLabels[CHOOSE i \in 1..Len(safeFieldLabels) : safeFieldLabels[i][1] = key][2]
     ELSE IF "_" \in Range(key)
          THEN IF Len(parts) >= 2 /\ parts[1] \in {<<"c","o","m","p","a","n","y">>, <<"i","n","v","e","s","t","o","r">>}
               THEN Capitalize(parts[1]) \o <<" ">> \o titled(Tail(parts))
               ELSE titled(parts)
          ELSE <<UpperChar(key[1])>> \o SubSeq(key, 2, Len(key))

\* body of sortedPlaceholders.map: one placeholder object.  The context of
\* a blank is taken at placeholderPositions.get(key) || 0.
PlaceholderObject(s, positions, key, index) ==
  [key |-> key,
   label |-> IF IsBlankKey(key) THEN BlankLabel(s, key, positions[key])
             ELSE NamedLabel(key),
   position |-> index + 1]

----------------------------------------------------------------------------
(* useDocumentStore: the session state and its setters                     *)

NoFile == <<>>
NoKey == <<>>
NoError == "none"

\* the store as create() builds it
InitialStore ==
  [uploadedFile |-> NoFile,
   placeholders |-> <<>>,
   placeholderFormatMap |-> <<>>,
   placeholderAnalyses |-> {},
   filledValues |-> <<>>,
   messages |-> <<>>,
   currentQuestionIndex |-> 0,
   isProcessing |-> FALSE]

SystemMessage == [type |-> "system", placeholder |-> NoKey]
UserMessage == [type |-> "user", placeholder |-> NoKey]
\* an assistant message that asks for a key, or (NoKey) announces completion
AssistantMessage(key) == [type |-> "assistant", placeholder |-> key]

\* Array.from(new Set(placeholders)).filter(p => p && p.trim().length > 0)
RECURSIVE UniqueNonEmpty(_)
UniqueNonEmpty(ps) ==
  IF ps = <<>> THEN <<>>
  ELSE LET front == UniqueNonEmpty(SubSeq(ps, 1, Len(ps) - 1))
           p == ps[Len(ps)]
       IN IF Trim(p) = <<>> \/ p \in Range(front) THEN front ELSE Append(front, p)

setPlaceholdersKeepingAnswers(st, placeholders) ==
  LET unique == UniqueNonEmpty(placeholders)
  IN [st EXCEPT !.placeholders = unique,
                !.messages = IF Len(unique) > 0 THEN <<SystemMessage>> ELSE <<>>,
                !.currentQuestionIndex = 0]

setPlaceholders(st, placeholders) ==
  LET unique == UniqueNonEmpty(placeholders)
  IN [st EXCEPT !.placeholders = unique,
                !.messages = IF Len(unique) > 0 THEN <<SystemMessage>> ELSE <<>>,
                !.currentQuestionIndex = 0,
                !.filledValues = <<>>]

\* filledValues[key] (undefined is <<>>)
ValueOf(values, key) ==
  IF \E n \in 1..Len(values) : values[n].key = key
  THEN values[CHOOSE n \in 1..Len(values) : values[n].key = key].value
  ELSE <<>>

KeysOf(values) == {values[n].key : n \in 1..Len(values)}

\* filledValues[key] && filledValues[key].trim()
HasAnswer(values, key) == Trim(ValueOf(values, key)) # <<>>

\* { ...state.filledValues, [placeholder]: value }
addFilledValue(st, placeholder, value) ==
  [st EXCEPT !.filledValues =
     IF placeholder \in KeysOf(@)
     THEN [n \in 1..Len(@) |->
             IF @[n].key = placeholder THEN [key |-> placeholder, value |-> value] ELSE @[n]]
     ELSE Append(@, [key |-> placeholder, value |-> value])]

addMessage(st, message) == [st EXCEPT !.messages = Append(@, message)]

setCurrentQuestionIndex(st, index) == [st EXCEPT !.currentQuestionIndex = index]

setIsProcessing(st, isProcessing) == [st EXCEPT !.isProcessing = isProcessing]

reset(st) == InitialStore

NoQuestion == [placeholder |-> NoKey]

getCurrentQuestion(st) ==
  IF Len(st.placeholders) = 0 \/ st.currentQuestionIndex >= Len(st.placeholders)
  THEN NoQuestion
  ELSE [placeholder |-> st.placeholders[st.currentQuestionIndex + 1]]

----------------------------------------------------------------------------
(* Input documents                                                         *)

\* number of fragments a generated document is made of
MaxFragments == 3

Fragments ==
  << <<"[","_","_","_","]">>, <<"[","-","-","-","]">>, <<"$">>, <<"x"," ">>, <<"[","a"," ","b","]">>, <<"[","A","-","B","]">>, <<"[","a"," "," ","b","]">>,
     <<"[","a","b","]">>, <<"[","t","h","e","]">>, <<"[","1","2","]">>, <<"[","a","]">>, <<"[","b","l","a","n","k","_","0","]">> >>

RECURSIVE FragmentDocs(_)
FragmentDocs(n) ==
  IF n = 0 THEN {<<>>}
  ELSE LET shorter == FragmentDocs(n - 1)
       IN shorter \cup {d \o Fragments[i] : d \in shorter, i \in 1..Len(Fragments)}

ScenarioA == <<"A","g","r","e","e","m","e","n","t"," ","b","e","t","w","e","e","n"," ","[","C","O","M","P","A","N","Y","]"," ","a","n","d"," ","[","i","n","v","e","s","t","o","r"," ","n","a","m","e","]",".">>
ScenarioB == <<"A","m","o","u","n","t",":"," ","$","[","_","_","_","_","]"," ","(","t","h","e"," ","\"","P","u","r","c","h","a","s","e"," ","A","m","o","u","n","t","\"",")","."," ","C","a","p",":"," ","$","[","_","_","_","_","]"," ","(","t","h","e"," ","\"","P","o","s","t","-","M","o","n","e","y"," ","V","a","l","u","a","t","i","o","n"," ","C","a","p","\"",")",".">>
ScenarioD == <<"P","a","y"," ","[","t","h","e","]"," ","s","u","m"," ","o","f"," ","[","1","2","]"," ","t","o"," ","[","P","a","y","e","e","]",".">>

ScenarioDocs ==
  { ScenarioA, ScenarioB, ScenarioD,
    <<"A","m","o","u","n","t",":"," ","$","[","_","_","_","_","]"," ","(","t","h","e"," ","\"","P","u","r","c","h","a","s","e"," ","A","m","o","u","n","t","\"",")",".">>,
    <<"C","a","p",":"," ","$","[","_","_","_","_","]"," ","(","t","h","e"," ","\"","P","o","s","t","-","M","o","n","e","y"," ","V","a","l","u","a","t","i","o","n"," ","C","a","p","\"",")",".">>,
    <<"S","i","g","n","e","d"," ","o","n"," ","o","r"," ","a","b","o","u","t"," ","[","_","_","_","_","]"," ","i","n"," ","t","h","e"," ","s","t","a","t","e"," ","o","f"," ","[","-","-","-","-","]",".">>,
    <<"[","C","O","M","P","A","N","Y","]"," ","a","n","d"," ","[","C","o","m","p","a","n","y","]"," ","a","n","d"," ","[","i","n","v","e","s","t","o","r","-","n","a","m","e","]">> }

Docs == FragmentDocs(MaxFragments) \cup ScenarioDocs

\* mammoth.convertToHtml of a one-paragraph document
ToHtml(t) == <<"<","p",">">> \o EscapeXml(t) \o <<"<","/","p",">">>

----------------------------------------------------------------------------
(* parseDocument                                                           *)

PatternCount == 2

\* no earlier call of parseDocument
NoRun == <<>>

\* no document has been handed to the upload area
InitSessionIdle ==
  /\ store = InitialStore
  /\ uploads = {}
  /\ timers = {}
  /\ readers = {}
  /\ questionCalls = {}
  /\ showSignatureUpload = FALSE
  /\ uploadError = NoError
  /\ uploadCount = 0
  /\ hfToken = FALSE
  /\ session = 0

\* generatePreview has not run
NoPreview == <<>>

InitOtherIdle ==
  /\ previousRun = NoRun
  /\ InitSessionIdle
  /\ preview = NoPreview

InitFillIdle ==
  /\ docXml = <<>>
  /\ filledValues = <<>>
  /\ filledXml = <<>>
  /\ blankQueue = <<>>
  /\ result = <<>>

\* state at the entry of parseDocument for a document drawn from docs
InitUpload(docs) ==
  /\ pc = "scanText"
  /\ text \in docs
  /\ html = ToHtml(text)
  /\ patIdx = 1
  /\ uniquePlaceholders = <<>>
  /\ placeholderFormatMap = <<>>
  /\ blankPositions = <<>>
  /\ blankCounter = 0
  /\ placeholderPositions = <<>>
  /\ sortedPlaceholders = <<>>
  /\ placeholderObjects = <<>>
  /\ InitFillIdle
  /\ InitOtherIdle

InitParse == InitUpload(Docs)

\* one iteration of placeholderPatterns.forEach over the plain text
ExtractFromText ==
  /\ pc = "scanText"
  /\ LET st == TextScan(ScanState(uniquePlaceholders, placeholderFormatMap,
                                  blankPositions, blankCounter),
                        text, patIdx, MatchOffsets(patIdx, text))
     IN /\ uniquePlaceholders' = st.unique
        /\ placeholderFormatMap' = st.formats
        /\ blankPositions' = st.blankPos
        /\ blankCounter' = st.counter
  /\ IF patIdx < PatternCount
     THEN patIdx' = patIdx + 1 /\ pc' = pc
     ELSE patIdx' = 1 /\ pc' = "scanHtml"
  /\ UNCHANGED <<text, html, placeholderPositions, sortedPlaceholders,
                 placeholderObjects>>
  /\ UNCHANGED fillVars
  /\ UNCHANGED otherVars

\* one iteration of placeholderPatterns.forEach over the HTML
ExtractFromHtml ==
  /\ pc = "scanHtml"
  /\ LET st == HtmlScan(ScanState(uniquePlaceholders, placeholderFormatMap,
                                  blankPositions, blankCounter),
                        html, patIdx, MatchOffsets(patIdx, html))
     IN /\ uniquePlaceholders' = st.unique
        /\ placeholderFormatMap' = st.formats
        /\ blankPositions' = st.blankPos
        /\ blankCounter' = st.counter
  /\ IF patIdx < PatternCount
     THEN patIdx' = patIdx + 1 /\ pc' = pc
     ELSE patIdx' = 1 /\ pc' = "positions"
  /\ UNCHANGED <<text, html, placeholderPositions, sortedPlaceholders,
                 placeholderObjects>>
  /\ UNCHANGED fillVars
  /\ UNCHANGED otherVars

\* placeholdersArray.forEach: first position of every key
FindPositions ==
  /\ pc = "positions"
  /\ placeholderPositions' =
       [k \in Range(uniquePlaceholders) |->
          FirstPosition(text, placeholderFormatMap, k)]
  /\ pc' = "sort"
  /\ UNCHANGED <<text, html, patIdx, uniquePlaceholders, placeholderFormatMap,
                 blankPositions, blankCounter, sortedPlaceholders,
                 placeholderObjects>>
  /\ UNCHANGED fillVars
  /\ UNCHANGED otherVars

SortPlaceholders ==
  /\ pc = "sort"
  /\ sortedPlaceholders' = SortByPosition(uniquePlaceholders, placeholderPositions)
  /\ pc' = "objects"
  /\ UNCHANGED <<text, html, patIdx, uniquePlaceholders, placeholderFormatMap,
                 blankPositions, blankCounter, placeholderPositions,
                 placeholderObjects>>
  /\ UNCHANGED fillVars
  /\ UNCHANGED otherVars

BuildObjects ==
  /\ pc = "objects"
  /\ placeholderObjects' =
       [i \in 1..Len(sortedPlaceholders) |->
          PlaceholderObject(text, placeholderPositions, sortedPlaceholders[i], i - 1)]
  /\ pc' = "parsed"
  /\ UNCHANGED <<text, html, patIdx, uniquePlaceholders, placeholderFormatMap,
                 blankPositions, blankCounter, placeholderPositions,
                 sortedPlaceholders>>
  /\ UNCHANGED fillVars
  /\ UNCHANGED otherVars

NextParse ==
  \/ ExtractFromText
  \/ ExtractFromHtml
  \/ FindPositions
  \/ SortPlaceholders
  \/ BuildObjects

SpecParse == InitParse /\ [][NextParse]_vars

----------------------------------------------------------------------------
(* generateFilledDocument: matching the body                               *)

ReplacedMarker == <<"<","!","-","-","R","E","P","L","A","C","E","D","-","-",">">>

\* number of characters inspected on each side of a blank for a marker
MarkerWindow == 50

\* one element of a generated pattern: a literal character (compared
\* ignoring case, flag 'i') or a starred group of alternatives among
\* <[^>]*> (tag), \s (ws) and &[^;]+; (entity)
Lit(c) == [kind |-> "lit", c |-> c, tag |-> FALSE, ws |-> FALSE, ent |-> FALSE]
Skip(tag, ws, ent) == [kind |-> "skip", c |-> "", tag |-> tag, ws |-> ws, ent |-> ent]
Lits(s) == [i \in 1..Len(s) |-> Lit(s[i])]

TagsOnly == Skip(TRUE, FALSE, FALSE)
TagsOrSpace == Skip(TRUE, TRUE, FALSE)
TagsSpaceOrEntity == Skip(TRUE, TRUE, TRUE)
SpaceOnly == Skip(FALSE, TRUE, FALSE)

\* offsets reachable from offset i by one iteration of a starred group
SkipOnce(s, i, g) ==
  (IF g.tag /\ i < Len(s) /\ s[i + 1] = "<" /\ RunEndNot(s, i + 1, {">"}) < Len(s)
   THEN {RunEndNot(s, i + 1, {">"}) + 1} ELSE {})
  \cup (IF g.ws /\ i < Len(s) /\ s[i + 1] \in Whitespace THEN {i + 1} ELSE {})
  \cup (IF /\ g.ent /\ i < Len(s) /\ s[i + 1] = "&"
           /\ RunEndNot(s, i + 1, {";"}) > i + 1
           /\ RunEndNot(s, i + 1, {";"}) < Len(s)
        THEN {RunEndNot(s, i + 1, {";"}) + 1} ELSE {})

\* offsets reachable by any number of iterations
RECURSIVE SkipStar(_, _, _)
SkipStar(s, i, g) ==
  {i} \cup UNION {SkipStar(s, k, g) : k \in SkipOnce(s, i, g)}

\* end offsets of the matches of pat[j..] that start at offset i
RECURSIVE PatternEnds(_, _, _, _)
PatternEnds(s, i, pat, j) ==
  IF j > Len(pat) THEN {i}
  ELSE IF pat[j].kind = "lit"
       THEN IF i < Len(s) /\ LowerChar(s[i + 1]) = LowerChar(pat[j].c)
            THEN PatternEnds(s, i + 1, pat, j + 1)
            ELSE {}
       ELSE UNION {PatternEnds(s, k, pat, j + 1) : k \in SkipStar(s, i, pat[j])}

\* end of the match the engine reports at offset i, or -1.  Every generated
\* pattern ends with "]" or "}", so the greedy groups leave one end.
PatternMatchAt(s, i, pat) ==
  LET ends == PatternEnds(s, i, pat, 1)
  IN IF ends = {} THEN -1 ELSE Max(ends)

\* regex.test(s) / (s.match(regex) || []).length > 0
PatternFound(s, pat) == \E i \in 0..Len(s) : PatternMatchAt(s, i, pat) # -1

\* s.replace(regex with flag g, replacement) from offset i on: the leftmost
\* match at or after i is replaced and the scan resumes at its end; the
\* replacement is inserted as it is (the answers of the model hold no "$")
RECURSIVE ReplaceAllFrom(_, _, _, _, _)
ReplaceAllFrom(s, i, starts, pat, replacement) ==
  IF {b \in starts : b >= i} = {} THEN Substring(s, i, Len(s))
  ELSE LET b == Min({x \in starts : x >= i})
       IN Substring(s, i, b) \o replacement
          \o ReplaceAllFrom(s, PatternMatchAt(s, b, pat), starts, pat, replacement)

ReplaceAll(s, pat, replacement) ==
  ReplaceAllFrom(s, 0, {i \in 0..Len(s) : PatternMatchAt(s, i, pat) > i}, pat,
                 replacement)

\* originalFormat.replace(/^\[/, '').replace(/\]$/, '')
PlaceholderContent(format) ==
  LET a == IF format # <<>> /\ Head(format) = "[" THEN Tail(format) ELSE format
  IN IF a # <<>> /\ a[Len(a)] = "]" THEN SubSeq(a, 1, Len(a) - 1) ELSE a

\* items of chars.map(c => g + c).join(g): every character preceded by a
\* group and, between two characters, the joining group
RECURSIVE Interleave(_, _, _)
Interleave(content, before, between) ==
  IF content = <<>> THEN <<>>
  ELSE before \o <<Lit(Head(content))>> \o
       (IF Len(content) > 1 THEN between ELSE <<>>) \o
       Interleave(Tail(content), before, between)

\* new RegExp(escapedFormat, 'gi')
DirectPattern(format) == Lits(format)

\* \[(<[^>]*>)* ... (<[^>]*>)*\] with (<[^>]*>)*c per character
SplitPattern(format) ==
  <<Lit("["), TagsOnly>> \o
  Interleave(PlaceholderContent(format), <<TagsOnly>>, <<TagsOnly>>) \o
  <<TagsOnly, Lit("]")>>

\* \[(<[^>]*>|\s)*content(<[^>]*>|\s)*\]
FlexiblePattern(format) ==
  <<Lit("["), TagsOrSpace>> \o Lits(PlaceholderContent(format)) \o
  <<TagsOrSpace, Lit("]")>>

\* \[(<[^>]*>|\s|&[^;]+;)* c (<[^>]*>|\s)* c ... (<[^>]*>|\s|&[^;]+;)*\]
VeryFlexiblePattern(format) ==
  <<Lit("["), TagsSpaceOrEntity>> \o
  Interleave(PlaceholderContent(format), <<>>, <<TagsOrSpace>>) \o
  <<TagsSpaceOrEntity, Lit("]")>>

\* the pattern of the final pass: the entity-tolerant group before every
\* character, between the characters and at both ends
FinalPattern(format) ==
  <<Lit("["), TagsSpaceOrEntity>> \o
  Interleave(PlaceholderContent(format), <<TagsSpaceOrEntity>>, <<TagsSpaceOrEntity>>) \o
  <<TagsSpaceOrEntity, Lit("]")>>

\* !value || value.trim() === ''
IsEmptyValue(value) == Trim(value) = <<>>

\* array.indexOf(x)
IndexOf(seq, x) ==
  IF x \in Range(seq) THEN Min({i \in 1..Len(seq) : seq[i] = x}) - 1 ELSE -1

\* array.filter(p => /^blank_\d+$/.test(p))
RECURSIVE BlanksOf(_)
BlanksOf(keys) ==
  IF keys = <<>> THEN <<>>
  ELSE (IF IsBlankKey(Head(keys)) THEN <<Head(keys)>> ELSE <<>>) \o BlanksOf(Tail(keys))

RECURSIVE BlankEntries(_)
BlankEntries(entries) ==
  IF entries = <<>> THEN <<>>
  ELSE (IF IsBlankKey(Head(entries).key) THEN <<Head(entries)>> ELSE <<>>)
       \o BlankEntries(Tail(entries))

\* blankPlaceholders.sort(([a], [b]) => indexOf(b) - indexOf(a)), stable
RECURSIVE SortBlanksDescending(_, _)
SortBlanksDescending(entries, placeholders) ==
  IF entries = <<>> THEN <<>>
  ELSE LET best == Max({IndexOf(placeholders, entries[i].key) : i \in 1..Len(entries)})
           at == Min({i \in 1..Len(entries) : IndexOf(placeholders, entries[i].key) = best})
       IN <<entries[at]>> \o
          SortBlanksDescending(SubSeq(entries, 1, at - 1) \o
                               SubSeq(entries, at + 1, Len(entries)), placeholders)

\* (<[^>]*>)* from offset i, greedy
RECURSIVE SkipTags(_, _)
SkipTags(s, i) ==
  IF i < Len(s) /\ s[i + 1] = "<" /\ RunEndNot(s, i + 1, {">"}) < Len(s)
  THEN SkipTags(s, RunEndNot(s, i + 1, {">"}) + 1)
  ELSE i

\* \[(<[^>]*>)*[_\-]{3,}(<[^>]*>)*\] at offset i: end of the match or -1
SplitBlankMatchEnd(s, i) ==
  IF i < Len(s) /\ s[i + 1] = "["
  THEN LET t == SkipTags(s, i + 1)
           e == RunEnd(s, t, BlankChars)
           u == SkipTags(s, e)
       IN IF e - t >= 3 /\ u < Len(s) /\ s[u + 1] = "]" THEN u + 1 ELSE -1
  ELSE -1

\* allBlankMatches: [index, end] of (\$)?\[[_\-]{3,}\], or of the split
\* pattern when the simple one finds nothing
BlankMatchesWith(s, split) ==
  LET MatchEnd(t, i) == IF split THEN SplitBlankMatchEnd(t, i) ELSE BlankMatchEnd(t, i)
      starts == SeqOfSet({i \in 0..Len(s) : MatchEnd(s, i) # -1})
  IN [n \in 1..Len(starts) |->
        LET b == starts[n]
            hasDollar == b > 0 /\ s[b] = "$"
        IN [index |-> IF hasDollar THEN b - 1 ELSE b,
            end |-> MatchEnd(s, b),
            hasDollar |-> hasDollar]]

AllBlankMatches(s) ==
  LET simple == BlankMatchesWith(s, FALSE)
  IN IF Len(simple) = 0 THEN BlankMatchesWith(s, TRUE) ELSE simple

\* body of sortedBlankPlaceholders.forEach for one entry
ReplaceBlank(xml, placeholders, entry) ==
  LET found == IndexOf(BlanksOf(placeholders), entry.key)
      occurrenceIndex == IF found = -1 THEN 0 ELSE found
      allBlankMatches == AllBlankMatches(xml)
  IN IF IsEmptyValue(entry.value) \/ occurrenceIndex >= Len(allBlankMatches)
     THEN xml
     ELSE LET targetMatch == allBlankMatches[occurrenceIndex + 1]
              checkBefore == Substring(xml, IF targetMatch.index - MarkerWindow < 0 THEN 0
                                            ELSE targetMatch.index - MarkerWindow,
                                       targetMatch.index)
              checkAfter == Substring(xml, targetMatch.end, targetMatch.end + MarkerWindow)
          IN IF ~Includes(checkBefore, ReplacedMarker) /\ ~Includes(checkAfter, ReplacedMarker)
             THEN Substring(xml, 0, targetMatch.index) \o EscapeXml(entry.value)
                  \o ReplacedMarker \o Substring(xml, targetMatch.end, Len(xml))
             ELSE xml

\* the strategies with the value written behind the body when none of them
\* finds the format
ReplaceFormatWritingOnMiss(xml, format, value) ==
  IF PatternFound(xml, DirectPattern(format))
  THEN ReplaceAll(xml, DirectPattern(format), EscapeXml(value))
  ELSE IF PatternFound(xml, SplitPattern(format))
       THEN ReplaceAll(xml, SplitPattern(format), EscapeXml(value))
       ELSE IF PatternFound(xml, FlexiblePattern(format))
            THEN ReplaceAll(xml, FlexiblePattern(format), EscapeXml(value))
            ELSE xml \o EscapeXml(value)

\* originalFormats.forEach body: strategies 1 to 3 for one format
ReplaceFormat(xml, format, value) ==
  IF PatternFound(xml, DirectPattern(format))
  THEN ReplaceAll(xml, DirectPattern(format), EscapeXml(value))
  ELSE IF PatternFound(xml, SplitPattern(format))
       THEN ReplaceAll(xml, SplitPattern(format), EscapeXml(value))
       ELSE ReplaceAll(xml, FlexiblePattern(format), EscapeXml(value))

RECURSIVE ReplaceFormats(_, _, _)
ReplaceFormats(xml, formats, value) ==
  IF formats = <<>> THEN xml
  ELSE ReplaceFormats(ReplaceFormat(xml, Head(formats), value), Tail(formats), value)

\* the aggressive pass run when a format is still found after all formats
RECURSIVE ReplaceVeryFlexible(_, _, _)
ReplaceVeryFlexible(xml, formats, value) ==
  IF formats = <<>> THEN xml
  ELSE ReplaceVeryFlexible(
         ReplaceAll(xml, VeryFlexiblePattern(Head(formats)), EscapeXml(value)),
         Tail(formats), value)

\* key.replace(/_/g, c)
ReplaceUnderscores(key, c) == [i \in 1..Len(key) |-> IF key[i] = "_" THEN c ELSE key[i]]

\* the six fallback patterns of one key variation
FallbackPatterns(keyVar) ==
  << <<Lit("[")>> \o Lits(keyVar) \o <<Lit("]")>>,
     <<Lit("["), SpaceOnly>> \o Lits(keyVar) \o <<SpaceOnly, Lit("]")>>,
     <<Lit("{"), Lit("{")>> \o Lits(keyVar) \o <<Lit("}"), Lit("}")>>,
     <<Lit("{"), Lit("{"), SpaceOnly>> \o Lits(keyVar) \o <<SpaceOnly, Lit("}"), Lit("}")>>,
     <<Lit("{")>> \o Lits(keyVar) \o <<Lit("}")>>,
     <<Lit("{"), SpaceOnly>> \o Lits(keyVar) \o <<SpaceOnly, Lit("}")>> >>

RECURSIVE ReplacePatterns(_, _, _)
ReplacePatterns(xml, patterns, value) ==
  IF patterns = <<>> THEN xml
  ELSE CHOOSE body \in
         {ReplacePatterns(replaced, Tail(patterns), value) :
            replaced \in {ReplaceAll(xml, Head(patterns), EscapeXml(value))}} : TRUE

\* the branch taken when the format map has no format for the key
ReplaceFallback(xml, key, value) ==
  ReplacePatterns(xml,
    FallbackPatterns(key) \o FallbackPatterns(ReplaceUnderscores(key, " "))
      \o FallbackPatterns(ReplaceUnderscores(key, "-")),
    value)

FormatsOf(formatMap, key) ==
  IF key \in DOMAIN formatMap THEN formatMap[key] ELSE <<>>

\* body of the non-blank forEach for one entry
ReplaceNamed(xml, formatMap, entry) ==
  LET originalFormats == FormatsOf(formatMap, entry.key)
      replaced == ReplaceFormats(xml, originalFormats, entry.value)
      anyFormatFound ==
        \E n \in 1..Len(originalFormats) :
          \/ PatternFound(replaced, DirectPattern(originalFormats[n]))
          \/ PatternFound(replaced, SplitPattern(originalFormats[n]))
  IN IF IsEmptyValue(entry.value) \/ IsBlankKey(entry.key) THEN xml
     ELSE IF originalFormats # <<>>
          THEN IF anyFormatFound
               THEN ReplaceVeryFlexible(replaced, originalFormats, entry.value)
               ELSE replaced
          ELSE ReplaceFallback(xml, entry.key, entry.value)

RECURSIVE ReplaceAllNamed(_, _, _)
ReplaceAllNamed(xml, formatMap, entries) ==
  IF entries = <<>> THEN xml
  ELSE ReplaceAllNamed(ReplaceNamed(xml, formatMap, Head(entries)), formatMap,
                       Tail(entries))

\* filledXml.replace(/<!--REPLACED-->/g, '')
StripMarkers(xml) == ReplaceAll(xml, Lits(ReplacedMarker), <<>>)

\* remainingPlaceholders: the [key, format] pairs of answered keys whose
\* format is still found, exactly or split, in the stripped body
RECURSIVE RemainingOfFormats(_, _, _)
RemainingOfFormats(xml, entry, formats) ==
  IF formats = <<>> THEN <<>>
  ELSE (IF \/ PatternFound(xml, DirectPattern(Head(formats)))
           \/ PatternFound(xml, SplitPattern(Head(formats)))
        THEN <<[key |-> entry.key, value |-> entry.value, format |-> Head(formats)]>>
        ELSE <<>>) \o RemainingOfFormats(xml, entry, Tail(formats))

RECURSIVE RemainingPlaceholders(_, _, _)
RemainingPlaceholders(xml, formatMap, entries) ==
  IF entries = <<>> THEN <<>>
  ELSE (IF IsEmptyValue(Head(entries).value) THEN <<>>
        ELSE RemainingOfFormats(xml, Head(entries), FormatsOf(formatMap, Head(entries).key)))
       \o RemainingPlaceholders(xml, formatMap, Tail(entries))

\* remainingPlaceholders.forEach of the final pass
RECURSIVE FinalPass(_, _)
FinalPass(xml, remaining) ==
  IF remaining = <<>> THEN xml
  ELSE FinalPass(ReplaceAll(xml, FinalPattern(Head(remaining).format),
                            EscapeXml(Head(remaining).value)),
                 Tail(remaining))

----------------------------------------------------------------------------
(* generateFilledDocument: inputs and steps                                *)

\* number of fragments of a document that is filled
MaxFillFragments == 2

\* fifty characters of running text
Filler == <<".",".",".",".",".",".",".",".",".",".",".",".",".",".",".",".",".",".",".",".",".",".",".",".",".",".",".",".",".",".",".",".",".",".",".",".",".",".",".",".",".",".",".",".",".",".",".",".",".",".">>

FillFragments ==
  << <<"[","_","_","_","]">>, <<"$","[","_","_","_","]">>, <<"[","_","_","_","]">> \o Filler, <<"[","a","b","]">>, <<"[","A"," ","B","]">> >>

RECURSIVE FillDocsUpTo(_)
FillDocsUpTo(n) ==
  IF n = 0 THEN {<<>>}
  ELSE LET shorter == FillDocsUpTo(n - 1)
       IN shorter \cup {d \o FillFragments[i] : d \in shorter, i \in 1..Len(FillFragments)}

FillDocs == FillDocsUpTo(MaxFillFragments)

\* number of answers given before the document is generated
MaxAnswers == 2

\* the answers a user may type for the key at index n of the schema: a
\* letter of its own or a whitespace-only answer (no answer holds "$")
Values(n) == { <<UpperSeq[n + 1]>>, <<" ">> }

\* word/document.xml of a one-run document, of the same document carrying
\* an XML comment, and of the document with its run split after the first "["
RunOpen == <<"<","w",":","t",">">>
RunClose == <<"<","/","w",":","t",">">>

DocXmlOf(t) ==
  LET b == IF "[" \in Range(t) THEN Min({i \in 1..Len(t) : t[i] = "["}) ELSE 0
  IN { RunOpen \o EscapeXml(t) \o RunClose,
       RunOpen \o EscapeXml(t) \o RunClose \o ReplacedMarker }
     \cup (IF b = 0 THEN {}
           ELSE { RunOpen \o EscapeXml(SubSeq(t, 1, b)) \o RunClose \o RunOpen
                  \o EscapeXml(SubSeq(t, b + 1, Len(t))) \o RunClose })

\* every insertion order of at most n answers to distinct keys
RECURSIVE AnswerSeqs(_, _, _)
AnswerSeqs(placeholders, keys, n) ==
  IF n = 0 THEN {<<>>}
  ELSE {<<>>} \cup
       UNION {UNION {{<<[key |-> k, value |-> v]>> \o rest :
                        rest \in AnswerSeqs(placeholders, keys \ {k}, n - 1)} :
                       v \in Values(IndexOf(placeholders, k))} :
                k \in keys}

InitFill == InitUpload(FillDocs)

\* entry of generateFilledDocument with the schema and the format map of the
\* parse, the body of the document and the answers given so far
StartGeneration ==
  /\ pc = "parsed"
  /\ docXml' \in DocXmlOf(text)
  /\ filledValues' \in AnswerSeqs(sortedPlaceholders, Range(sortedPlaceholders),
                                  MaxAnswers)
  /\ filledXml' = docXml'
  /\ blankQueue' = SortBlanksDescending(BlankEntries(filledValues'),
                                        sortedPlaceholders)
  /\ pc' = "blanks"
  /\ UNCHANGED result
  /\ UNCHANGED parseVars
  /\ UNCHANGED otherVars

\* one iteration of sortedBlankPlaceholders.forEach
ReplaceBlankStep ==
  /\ pc = "blanks"
  /\ blankQueue # <<>>
  /\ filledXml' = ReplaceBlank(filledXml, sortedPlaceholders, Head(blankQueue))
  /\ blankQueue' = Tail(blankQueue)
  /\ UNCHANGED <<pc, docXml, filledValues, result>>
  /\ UNCHANGED parseVars
  /\ UNCHANGED otherVars

\* Object.entries(filledValues).forEach over the named keys
ReplaceNamedStep ==
  /\ pc = "blanks"
  /\ blankQueue = <<>>
  /\ filledXml' = ReplaceAllNamed(filledXml, placeholderFormatMap, filledValues)
  /\ pc' = "strip"
  /\ UNCHANGED <<docXml, filledValues, blankQueue, result>>
  /\ UNCHANGED parseVars
  /\ UNCHANGED otherVars

\* removal of the replacement markers
StripStep ==
  /\ pc = "strip"
  /\ filledXml' = StripMarkers(filledXml)
  /\ pc' = "verify"
  /\ UNCHANGED <<docXml, filledValues, blankQueue, result>>
  /\ UNCHANGED parseVars
  /\ UNCHANGED otherVars

\* verification and final pass; the body is written back and returned
FinalPassStep ==
  /\ pc = "verify"
  /\ filledXml' = FinalPass(filledXml,
                            RemainingPlaceholders(filledXml, placeholderFormatMap,
                                                  filledValues))
  /\ result' = filledXml'
  /\ pc' = "generated"
  /\ UNCHANGED <<docXml, filledValues, blankQueue>>
  /\ UNCHANGED parseVars
  /\ UNCHANGED otherVars

NextFill ==
  \/ NextParse
  \/ StartGeneration
  \/ ReplaceBlankStep
  \/ ReplaceNamedStep
  \/ StripStep
  \/ FinalPassStep

SpecFill == InitFill /\ [][NextFill]_vars

----------------------------------------------------------------------------
(* parseDocument called again on the same document                         *)

\* the object parseDocument returns
ParseResult ==
  [text |-> text,
   html |-> html,
   placeholders |-> sortedPlaceholders,
   placeholderFormatMap |-> placeholderFormatMap,
   placeholderObjects |-> placeholderObjects]

\* locals that would outlive a call if the counter were shared between calls
EntryScanStateSharedCounter ==
  ScanState(<<>>, <<>>, <<>>, blankCounter)

\* the locals parseDocument declares at its entry
EntryScanState ==
  ScanState(<<>>, <<>>, <<>>, 0)

\* a second call of parseDocument on the document of the first call
ParseAgain ==
  /\ pc = "parsed"
  /\ previousRun = NoRun
  /\ previousRun' = ParseResult
  /\ pc' = "scanText"
  /\ patIdx' = 1
  /\ uniquePlaceholders' = EntryScanState.unique
  /\ placeholderFormatMap' = EntryScanState.formats
  /\ blankPositions' = EntryScanState.blankPos
  /\ blankCounter' = EntryScanState.counter
  /\ placeholderPositions' = <<>>
  /\ sortedPlaceholders' = <<>>
  /\ placeholderObjects' = <<>>
  /\ UNCHANGED <<text, html>>
  /\ UNCHANGED fillVars
  /\ UNCHANGED <<sessionVars, preview>>

\* number of fragments of a document that is parsed twice
MaxReparseFragments == 2

ReparseDocs == FragmentDocs(MaxReparseFragments) \cup ScenarioDocs

InitReparse == InitUpload(ReparseDocs)

NextReparse ==
  \/ NextParse
  \/ ParseAgain

SpecReparse == InitReparse /\ [][NextReparse]_vars

----------------------------------------------------------------------------
(* Extraction properties                                                   *)

\* the bracketed spans of the plain text, found without the scan: [off, end)
\* is a span when it opens with "[", closes with "]" and holds neither
BracketSpans(t) ==
  {sp \in (0..Len(t)) \X (0..Len(t)) :
     /\ sp[1] + 2 <= sp[2]
     /\ t[sp[1] + 1] = "["
     /\ t[sp[2]] = "]"
     /\ \A i \in (sp[1] + 2)..(sp[2] - 1) : t[i] \notin {"[", "]"}}

Inner(t, sp) == Substring(t, sp[1] + 1, sp[2] - 1)
Literal(t, sp) == Substring(t, sp[1], sp[2])

\* a bracket-blank: three or more underscores or hyphens
IsBlankSpan(t, sp) ==
  Len(Inner(t, sp)) >= 3 /\ \A i \in 1..Len(Inner(t, sp)) : Inner(t, sp)[i] \in BlankChars

\* a bracketed identifier that is not a blank
IsNamedSpan(t, sp) ==
  /\ Inner(t, sp)[1] \in IdentStart
  /\ \A i \in 1..Len(Inner(t, sp)) : Inner(t, sp)[i] \in IdentChars
  /\ ~IsBlankRun(Trim(Inner(t, sp)))

BlankSpans(t) == {sp \in BracketSpans(t) : IsBlankSpan(t, sp)}
NamedSpans(t) == {sp \in BracketSpans(t) : IsNamedSpan(t, sp)}

\* 0-based rank of a blank span among the blank spans
BlankRank(t, sp) == Cardinality({o \in BlankSpans(t) : o[1] < sp[1]})

\* the words of an inner text: pieces between separators, a separator being
\* one hyphen, one underscore or one run of whitespace; case is dropped
RECURSIVE WordsOf(_)
WordsOf(s) ==
  LET e == RunEndNot(s, 0, SeparatorClass)
      sepEnd == IF e < Len(s) /\ s[e + 1] \in Whitespace
                THEN RunEnd(s, e, Whitespace) ELSE e + 1
  IN IF e = Len(s) THEN <<ToLowerCase(s)>>
     ELSE <<ToLowerCase(SubSeq(s, 1, e))>> \o WordsOf(SubSeq(s, sepEnd + 1, Len(s)))

\* the key a named span stands for: its words joined by "_"
KeyOfWords(inner) == Join(WordsOf(Trim(inner)), <<"_">>)

\* the length / numeric / stop-word rules
IsRejected(inner) ==
  \/ Len(KeyOfWords(inner)) < 2
  \/ \A i \in 1..Len(Trim(inner)) : Trim(inner)[i] \in Digit
  \/ KeyOfWords(inner) \in excludedWords

SchemaKeys == Range(sortedPlaceholders)

\* first offset of an occurrence of key k in the plain text
OccurrenceOffsets(k) ==
  {sp[1] : sp \in {o \in NamedSpans(text) : KeyOfWords(Inner(text, o)) = k}}
  \cup {off \in DOMAIN blankPositions : blankPositions[off] = k}

FirstOccurrence(k) == Min(OccurrenceOffsets(k))

\* C4: the schema lists the keys in ascending order of first-occurrence
\* offset in the plain text and record.position is the 1-based rank in that
\* order, for every offset >= 0.
C4_SchemaInDocumentOrder ==
  pc = "parsed" =>
    /\ \A i, j \in 1..Len(sortedPlaceholders) :
         i < j => FirstOccurrence(sortedPlaceholders[i])
                    <= FirstOccurrence(sortedPlaceholders[j])
    /\ \A i \in 1..Len(placeholderObjects) :
         /\ placeholderObjects[i].key = sortedPlaceholders[i]
         /\ placeholderObjects[i].position = i

\* C5: the occurrence blank_i was minted for is the i-th bracket-blank of
\* the plain text, underscore runs and hyphen runs alike, so blank_i lies
\* strictly before blank_{i+1}.
C5_BlankSuffixIsRank ==
  pc = "parsed" =>
    \A sp \in BlankSpans(text) :
      /\ sp[1] \in DOMAIN blankPositions
      /\ blankPositions[sp[1]] = BlankPrefix \o ToDecimal(BlankRank(text, sp))

\* C6: every bracket-blank is claimed by exactly one blank key, every blank
\* key of the schema claims exactly one bracket-blank, and no named
\* placeholder shares its key with a positional blank.
C6_KeysUnambiguous ==
  pc = "parsed" =>
    /\ \A sp \in BlankSpans(text) : sp[1] \in DOMAIN blankPositions
    /\ \A k \in SchemaKeys :
         IsBlankKey(k) =>
           Cardinality({off \in DOMAIN blankPositions : blankPositions[off] = k}) = 1
    /\ \A sp \in NamedSpans(text) : ~IsBlankKey(KeyOfWords(Inner(text, sp)))

\* the key of the schema that stands for a span
Represents(k, sp) ==
  IF IsBlankSpan(text, sp)
  THEN sp[1] \in DOMAIN blankPositions /\ blankPositions[sp[1]] = k
  ELSE k = KeyOfWords(Inner(text, sp))

\* C7: every bracketed identifier or bracket-blank of the plain text that
\* the length / numeric / stop-word rules do not reject is represented by
\* exactly one key of the schema, whose surface forms hold its literal text.
C7_NoOrphanedPlaceholder ==
  pc = "parsed" =>
    \A sp \in BlankSpans(text) \cup NamedSpans(text) :
      (IsBlankSpan(text, sp) \/ ~IsRejected(Inner(text, sp))) =>
        /\ Cardinality({i \in 1..Len(sortedPlaceholders) :
                          Represents(sortedPlaceholders[i], sp)}) = 1
        /\ \E k \in SchemaKeys :
             /\ Represents(k, sp)
             /\ k \in DOMAIN placeholderFormatMap
             /\ Literal(text, sp) \in Range(placeholderFormatMap[k])

\* a document with a blank, a kept named placeholder and a rejected one
C7_Witness ==
  /\ pc = "parsed"
  /\ BlankSpans(text) # {}
  /\ \E sp \in NamedSpans(text) : ~IsRejected(Inner(text, sp))
  /\ \E sp \in NamedSpans(text) : IsRejected(Inner(text, sp))
  /\ Len(sortedPlaceholders) = 2

\* the quoted term that directly follows the bracket ending at offset e:
\* ` (the "X")`
FollowingTerm(t, e) ==
  IF OccursAt(t, <<" ","(","t","h","e"," ","\"">>, e)
     /\ RunEndNot(t, e + 7, Quotes) < Len(t)
     /\ OccursAt(t, <<"\"",")">>, RunEndNot(t, e + 7, Quotes))
  THEN Substring(t, e + 7, RunEndNot(t, e + 7, Quotes))
  ELSE <<>>

LabelOf(k) ==
  placeholderObjects[CHOOSE i \in 1..Len(placeholderObjects) :
                       placeholderObjects[i].key = k].label

\* C8: when each of two currency-prefixed blanks is directly followed by
\* its own quoted defined term, each blank is labelled with the term that
\* follows that same blank (Scenario B: "Purchase Amount" for blank_0 and
\* "Post-Money Valuation Cap" for blank_1).
C8_BlankLabelledByOwnTerm ==
  (/\ pc = "parsed"
   /\ Cardinality(BlankSpans(text)) = 2
   /\ \A sp \in BlankSpans(text) :
        /\ sp[1] > 0 /\ text[sp[1]] = "$"
        /\ FollowingTerm(text, sp[2]) # <<>>)
  => \A sp \in BlankSpans(text) :
       LET k == BlankPrefix \o ToDecimal(BlankRank(text, sp))
       IN /\ k \in SchemaKeys
          /\ LabelOf(k) = FollowingTerm(text, sp[2])

\* C9: a non-blank bracketed candidate is dropped exactly when its
\* normalized key is shorter than 2 characters, its raw content is purely
\* numeric or its normalized key is a stop word; [the] and [12] give no key.
C9_RejectionRules ==
  pc = "parsed" =>
    /\ \A sp \in NamedSpans(text) :
         (KeyOfWords(Inner(text, sp)) \in SchemaKeys) <=> ~IsRejected(Inner(text, sp))
    /\ <<"t","h","e">> \notin SchemaKeys
    /\ <<"1","2">> \notin SchemaKeys

\* a document with [the] or [12], a one-letter candidate or a kept one
C9_Witness ==
  /\ pc = "parsed"
  /\ Includes(text, <<"[","t","h","e","]">>) \/ Includes(text, <<"[","1","2","]">>)
  /\ \E sp \in NamedSpans(text) : ~IsRejected(Inner(text, sp))
  /\ \E sp \in NamedSpans(text) : Len(KeyOfWords(Inner(text, sp))) < 2

\* two inner texts that differ only in letter case, in the length of
\* whitespace runs or in the separator used between words
SameField(a, b) == WordsOf(Trim(a)) = WordsOf(Trim(b))

\* C10: two bracketed occurrences whose inner text differs only in case,
\* whitespace-run length or word separator map to the same key, and that
\* key's surface forms hold every literal spelling seen in the plain text.
C10_SpellingsShareKey ==
  pc = "parsed" =>
    \A a, b \in NamedSpans(text) :
      (SameField(Inner(text, a), Inner(text, b)) /\ ~IsRejected(Inner(text, a))) =>
        \E k \in SchemaKeys :
          /\ Literal(text, a) \in Range(placeholderFormatMap[k])
          /\ Literal(text, b) \in Range(placeholderFormatMap[k])
          /\ \A other \in SchemaKeys \ {k} :
               /\ Literal(text, a) \notin Range(placeholderFormatMap[other])
               /\ Literal(text, b) \notin Range(placeholderFormatMap[other])

\* three spellings of one field in one document
C10_Witness ==
  /\ pc = "parsed"
  /\ \E a, b, c \in NamedSpans(text) :
       /\ Cardinality({Literal(text, a), Literal(text, b), Literal(text, c)}) = 3
       /\ SameField(Inner(text, a), Inner(text, b))
       /\ SameField(Inner(text, b), Inner(text, c))
       /\ ~IsRejected(Inner(text, a))
  /\ Len(sortedPlaceholders) = 1


----------------------------------------------------------------------------
(* Substitution properties                                                 *)

\* the non-empty answer given for key k, or <<>>
AnswerOf(k) ==
  IF \E n \in 1..Len(filledValues) : filledValues[n].key = k
  THEN LET v == filledValues[CHOOSE n \in 1..Len(filledValues) : filledValues[n].key = k].value
       IN IF IsEmptyValue(v) THEN <<>> ELSE v
  ELSE <<>>

IsAnswered(k) == AnswerOf(k) # <<>>

SpanAt(t, off) == CHOOSE sp \in BracketSpans(t) : sp[1] = off

\* the bracket-blanks of a body in document order, markup between the
\* brackets and the run being ignored
BodyBlanks(xml) == BlankMatchesWith(xml, TRUE)

\* 0-based rank of the bracket-blank that opens at offset off
BodyBlankRank(xml, off) ==
  Cardinality({i \in 0..Len(xml) : SplitBlankMatchEnd(xml, i) # -1 /\ i < off})

\* the bodies in which every bracket-blank of rank n-1 and above holds the
\* answer of its own key, the currency sign directly before it being kept
\* or taken into the replaced span
RECURSIVE BlanksFilledFrom(_, _, _)
BlanksFilledFrom(xml, matches, n) ==
  IF n > Len(matches) THEN {xml}
  ELSE LET k == BlankPrefix \o ToDecimal(n - 1)
           starts == {matches[n].index,
                      IF matches[n].hasDollar THEN matches[n].index + 1
                      ELSE matches[n].index}
       IN IF IsAnswered(k)
          THEN {Substring(later, 0, b) \o EscapeXml(AnswerOf(k))
                  \o Substring(later, matches[n].end, Len(later)) :
                  later \in BlanksFilledFrom(xml, matches, n + 1), b \in starts}
          ELSE BlanksFilledFrom(xml, matches, n + 1)

ExpectedBlankFills == BlanksFilledFrom(docXml, BodyBlanks(docXml), 1)

\* the schema lists blank_0 .. blank_{n-1} in this order
BlankKeysInOrder ==
  BlanksOf(sortedPlaceholders) =
    [n \in 1..Len(BlanksOf(sortedPlaceholders)) |-> BlankPrefix \o ToDecimal(n - 1)]

\* C1: whatever the order in which the blank answers were entered, the
\* answer of blank_i is written into the i-th bracket-blank of the original
\* body and into no other bracket.
C1_BlankAnswersAtOwnBrackets ==
  (/\ pc = "generated"
   /\ BlankKeysInOrder
   /\ \A n \in 1..Len(filledValues) : IsBlankKey(filledValues[n].key)
   /\ \A k \in SchemaKeys : IsBlankKey(k) => IsAnswered(k)
   /\ ~Includes(docXml, ReplacedMarker))
  => result \in ExpectedBlankFills

\* the literal occurrences of the unanswered keys in the original body, in
\* document order: the rank-i bracket-blank when blank_i has no answer and
\* the bracketed identifiers whose key has no answer
UnansweredSpans ==
  SeqOfSet({sp[1] : sp \in {o \in BlankSpans(docXml) :
                               ~IsAnswered(BlankPrefix \o ToDecimal(BodyBlankRank(docXml, o[1])))}}
           \cup {sp[1] : sp \in {o \in NamedSpans(docXml) :
                                    ~IsAnswered(KeyOfWords(Inner(docXml, o)))}})

\* do the literals of spans[n..] occur in s in this order at or after offset i
RECURSIVE OccurInOrder(_, _, _, _)
OccurInOrder(s, i, spans, n) ==
  IF n > Len(spans) THEN TRUE
  ELSE LET lit == Literal(docXml, SpanAt(docXml, spans[n]))
           hits == {j \in i..Len(s) : OccursAt(s, lit, j)}
       IN hits # {} /\ OccurInOrder(s, Min(hits) + Len(lit), spans, n + 1)

\* C2: every occurrence of every unanswered key, named surface forms and
\* blank brackets alike, is still in the returned body as it was; the
\* answer of one blank is never written into the bracket of a blank that
\* has no answer.
C2_UnansweredLeftAlone ==
  (pc = "generated" /\ BlankKeysInOrder)
  => OccurInOrder(result, 0, UnansweredSpans, 1)

\* C3: with an empty answers map the body is returned unchanged byte for
\* byte, for every input body.
C3_EmptyAnswersIdentity ==
  (pc = "generated" /\ filledValues = <<>>) => result = docXml


\* the keys that carry an empty or whitespace-only answer
EmptyAnswered ==
  {filledValues[n].key : n \in {m \in 1..Len(filledValues) : IsEmptyValue(filledValues[m].value)}}

\* the literal occurrences, in the original body, of the keys that carry an
\* empty or whitespace-only answer, in document order
EmptyAnsweredSpans ==
  SeqOfSet({sp[1] : sp \in {o \in BlankSpans(docXml) :
                               BlankPrefix \o ToDecimal(BodyBlankRank(docXml, o[1])) \in EmptyAnswered}}
           \cup {sp[1] : sp \in {o \in NamedSpans(docXml) :
                                    KeyOfWords(Inner(docXml, o)) \in EmptyAnswered}})

\* C12: a key whose answer is empty or whitespace-only is treated as not
\* answered: nothing is replaced for it, blank or named, and each of its
\* occurrences is in the returned body as it was in the input body.
C12_EmptyAnswerIsNoAnswer ==
  (pc = "generated" /\ BlankKeysInOrder)
  => OccurInOrder(result, 0, EmptyAnsweredSpans, 1)
----------------------------------------------------------------------------
(* The session: DocumentUpload, ChatInterface and the store                *)

\* number of files handed to the upload area
MaxUploads == 2

\* number of chat messages after which no further input is typed
MaxMessages == 7

\* number of ask timers and of signature image loads pending at a time
MaxPending == 2

\* documentContext.length above which analyzePlaceholder calls the model
ContextThreshold == 50

\* what parseDocument returns for a document with this schema
ParsedAs(keys) ==
  [placeholders |-> keys,
   placeholderFormatMap |->
     [n \in 1..Len(keys) |-> [key |-> keys[n], formats |-> {<<"[">> \o keys[n] \o <<"]">>}]]]

\* the files of the model: a file that is no .docx, a .docx mammoth cannot
\* read, a document without placeholders, a document whose one field is
\* a signature line and a three-field document
SessionFiles ==
  { [name |-> <<"a",".","p","d","f">>, kind |-> "File", decodable |-> FALSE, contextLength |-> 0,
     parsed |-> ParsedAs(<<>>)],
    [name |-> <<"b",".","d","o","c","x">>, kind |-> "File", decodable |-> FALSE, contextLength |-> 0,
     parsed |-> ParsedAs(<<>>)],
    [name |-> <<"c",".","d","o","c","x">>, kind |-> "File", decodable |-> TRUE, contextLength |-> 40,
     parsed |-> ParsedAs(<<>>)],
    [name |-> <<"d",".","d","o","c","x">>, kind |-> "File", decodable |-> TRUE, contextLength |-> 120,
     parsed |-> ParsedAs(<< <<"b","y">> >>)],
    [name |-> <<"e",".","d","o","c","x">>, kind |-> "File", decodable |-> TRUE, contextLength |-> 120,
     parsed |-> ParsedAs(<< <<"a","b">>, <<"c","d">>, <<"e","f">> >>)] }

\* the arguments parseDocument may be called with: the files and a value
\* that is no File, Blob or ArrayBuffer
ParseInputs ==
  SessionFiles \cup
    { [name |-> <<"f",".","d","o","c","x">>, kind |-> "Object", decodable |-> TRUE, contextLength |-> 120,
       parsed |-> ParsedAs(<< <<"c","d">> >>)] }

SupportedKinds == {"File", "Blob", "ArrayBuffer"}

\* parseDocument: the object returned, or the throw of the catch block
ParseOutcome(file) ==
  IF file.kind \notin SupportedKinds \/ ~file.decodable
  THEN [threw |-> TRUE, value |-> NoRun]
  ELSE [threw |-> FALSE, value |-> file.parsed]

\* what a render of ChatInterface closes over; n is the number of the
\* session the render belongs to (history)
Closure(st, n) ==
  [session |-> n,
   currentQuestionIndex |-> st.currentQuestionIndex,
   filledValues |-> st.filledValues,
   messages |-> st.messages,
   placeholders |-> st.placeholders,
   placeholderAnalyses |-> st.placeholderAnalyses]

\* index of the first placeholder at or after index i without an answer
RECURSIVE NextUnfilled(_, _, _)
NextUnfilled(placeholders, values, i) ==
  IF i < Len(placeholders) /\ HasAnswer(values, placeholders[i + 1])
  THEN NextUnfilled(placeholders, values, i + 1)
  ELSE i

\* messages.find(...): an assistant question for the key that a user message
\* follows before the next assistant message
ExistingQuestion(messages, key) ==
  \E idx \in 1..Len(messages) :
    /\ messages[idx].type = "assistant"
    /\ messages[idx].placeholder = key
    /\ \E u \in (idx + 1)..Len(messages) :
         /\ messages[u].type = "user"
         /\ \A a \in (idx + 1)..u : messages[a].type # "assistant"

\* messages.slice(-3).some(...)
RecentlyAsked(messages, key) ==
  \E idx \in 1..Len(messages) :
    /\ idx > Len(messages) - 3
    /\ messages[idx].type = "assistant"
    /\ messages[idx].placeholder = key

\* askNextQuestion run with the closure c on the store st: the store it
\* leaves, whether it set a timer for itself, and the key whose question it
\* awaits from the model
askNextQuestion(st, c, token) ==
  LET nextUnfilledIndex == NextUnfilled(c.placeholders, c.filledValues, c.currentQuestionIndex)
      st1 == IF /\ nextUnfilledIndex # c.currentQuestionIndex
                /\ nextUnfilledIndex < Len(c.placeholders)
             THEN setCurrentQuestionIndex(st, nextUnfilledIndex)
             ELSE st
      question == getCurrentQuestion(st1)
      placeholderKey == question.placeholder
      quiet == [store |-> st1, timer |-> FALSE, call |-> NoKey]
      skip == IF nextUnfilledIndex + 1 < Len(c.placeholders)
              THEN [store |-> setCurrentQuestionIndex(st1, nextUnfilledIndex + 1),
                    timer |-> TRUE, call |-> NoKey]
              ELSE quiet
  IN IF nextUnfilledIndex >= Len(c.placeholders) THEN quiet
     ELSE IF question = NoQuestion THEN quiet
     ELSE IF HasAnswer(c.filledValues, placeholderKey) THEN skip
     ELSE IF ExistingQuestion(c.messages, placeholderKey) THEN skip
     ELSE IF RecentlyAsked(c.messages, placeholderKey) THEN quiet
     ELSE IF placeholderKey \in c.placeholderAnalyses \/ ~token
          THEN [store |-> addMessage(st1, AssistantMessage(placeholderKey)),
                timer |-> FALSE, call |-> NoKey]
          ELSE [store |-> st1, timer |-> FALSE, call |-> placeholderKey]

\* the part handleSubmit and onSignatureUpload share: the answer is stored,
\* the index moves to the next unfilled placeholder of the closure and a
\* timer is set, or the completion message is posted
StoreAnswer(st, c, value) ==
  LET placeholderKey == getCurrentQuestion(st).placeholder
      st1 == addFilledValue(addMessage(st, UserMessage), placeholderKey, value)
      nextUnfilledIndex == NextUnfilled(c.placeholders, st1.filledValues,
                                        c.currentQuestionIndex + 1)
  IN IF nextUnfilledIndex < Len(c.placeholders)
     THEN [store |-> setCurrentQuestionIndex(st1, nextUnfilledIndex), timer |-> TRUE]
     ELSE [store |-> addMessage(st1, AssistantMessage(NoKey)), timer |-> FALSE]

\* handleSubmit with the text typed into the chat input
handleSubmit(st, c, inputValue) ==
  IF Trim(inputValue) = <<>> THEN [store |-> st, timer |-> FALSE]
  ELSE IF getCurrentQuestion(st) = NoQuestion
       THEN [store |-> addMessage(addMessage(st, UserMessage), AssistantMessage(NoKey)),
             timer |-> FALSE]
       ELSE StoreAnswer(st, c, Trim(inputValue))

\* the onSignatureUpload callback of ChatInterface
onSignatureUpload(st, c, signatureData) ==
  IF getCurrentQuestion(st) = NoQuestion THEN [store |-> st, timer |-> FALSE]
  ELSE StoreAnswer(st, c, signatureData)

IsSignatureField(key) ==
  LET placeholderLower == ToLowerCase(key)
  IN \/ placeholderLower \in { <<"b","y">>, <<"c","o","m","p","a","n","y","_","b","y">>, <<"i","n","v","e","s","t","o","r","_","b","y">> }
     \/ Includes(placeholderLower, <<"_","b","y">>)

\* App renders ChatInterface and DocumentPreview
ChatVisible(st) == st.uploadedFile # NoFile /\ Len(st.placeholders) > 0

allQuestionsAnswered(st) ==
  Len(st.placeholders) > 0 /\ Cardinality(KeysOf(st.filledValues)) = Len(st.placeholders)

\* a button that would be enabled as soon as one answer is stored
allFieldsFilledWhenAnyAnswered(st) ==
  Len(st.placeholders) > 0 /\ Cardinality(KeysOf(st.filledValues)) > 0

\* DocumentPreview: the download button is enabled
allFieldsFilled(st) ==
  Len(st.placeholders) > 0 /\ Cardinality(KeysOf(st.filledValues)) = Len(st.placeholders)

\* the effect on [currentQuestionIndex, placeholders] that shows or hides
\* the signature section; shown is what the handler left
SignatureEffect(before, after, shown) ==
  IF ~ChatVisible(after) THEN FALSE
  ELSE IF \/ after.currentQuestionIndex # before.currentQuestionIndex
          \/ after.placeholders # before.placeholders
          \/ ~ChatVisible(before)
       THEN getCurrentQuestion(after) # NoQuestion
            /\ IsSignatureField(getCurrentQuestion(after).placeholder)
       ELSE shown

TextInputs == { <<"A">>, <<" ">> }
ImageData == <<"d","a","t","a",":","i","m","a","g","e">>
SignatureInputs == { <<"S">>, ImageData }

\* a handler that would clear the session when the upload fails
StoreAfterFailureResetting(st) == reset(st)

\* the store after the catch and finally blocks of handleFile
StoreAfterFailure(st) == setIsProcessing(st, FALSE)

\* the store after the set* calls of handleFile and the finally block
StoreAfterUpload(st, file) ==
  LET parsed == ParseOutcome(file).value
      st1 == setPlaceholders([st EXCEPT !.uploadedFile = file], parsed.placeholders)
  IN setIsProcessing([st1 EXCEPT !.placeholderFormatMap = parsed.placeholderFormatMap,
                                 !.placeholderAnalyses = Range(parsed.placeholders)],
                     FALSE)

\* the effect that asks the first question
FirstQuestionDue(st) ==
  /\ Len(st.placeholders) > 0
  /\ Len(st.messages) = 1
  /\ st.currentQuestionIndex = 0
  /\ st.messages[1].type = "system"

InitSession ==
  /\ pc = "idle"
  /\ text = <<>>
  /\ html = <<>>
  /\ patIdx = 1
  /\ uniquePlaceholders = <<>>
  /\ placeholderFormatMap = <<>>
  /\ blankPositions = <<>>
  /\ blankCounter = 0
  /\ placeholderPositions = <<>>
  /\ sortedPlaceholders = <<>>
  /\ placeholderObjects = <<>>
  /\ InitFillIdle
  /\ previousRun = NoRun
  /\ store = InitialStore
  /\ uploads = {}
  /\ timers = {}
  /\ readers = {}
  /\ questionCalls = {}
  /\ showSignatureUpload = FALSE
  /\ uploadError = NoError
  /\ uploadCount = 0
  /\ hfToken \in BOOLEAN
  /\ session = 0
  /\ preview = NoPreview

engineVars == <<pc, parseVars, fillVars, previousRun, preview>>

\* handleFile up to its first await
HandleFile(file) ==
  /\ store.uploadedFile = NoFile
  /\ uploadCount < MaxUploads
  /\ \A u \in uploads : u.file # file
  /\ uploadCount' = uploadCount + 1
  /\ IF ~EndsWith(file.name, <<".","d","o","c","x">>)
     THEN /\ uploadError' = "invalidType"
          /\ UNCHANGED <<store, uploads>>
     ELSE /\ uploadError' = NoError
          /\ store' = setIsProcessing(store, TRUE)
          /\ uploads' = uploads \cup {[file |-> file, stage |-> "parsing"]}
  /\ showSignatureUpload' = SignatureEffect(store, store', showSignatureUpload)
  /\ UNCHANGED <<timers, readers, questionCalls, hfToken, session>>
  /\ UNCHANGED engineVars

\* parseDocument throws: the catch and finally blocks of handleFile
ParseThrows(u) ==
  /\ u \in uploads
  /\ u.stage = "parsing"
  /\ ParseOutcome(u.file).threw
  /\ store' = StoreAfterFailure(store)
  /\ uploadError' = "failed"
  /\ uploads' = uploads \ {u}
  /\ showSignatureUpload' = SignatureEffect(store, store', showSignatureUpload)
  /\ UNCHANGED <<timers, readers, questionCalls, uploadCount, hfToken, session>>
  /\ UNCHANGED engineVars

\* parseDocument returns and analyzeAllPlaceholders is awaited: with a token
\* and a long enough context every placeholder waits for the model
ParseReturns(u) ==
  /\ u \in uploads
  /\ u.stage = "parsing"
  /\ ~ParseOutcome(u.file).threw
  /\ uploads' = (uploads \ {u}) \cup
       {[file |-> u.file,
         stage |-> IF /\ hfToken
                      /\ u.file.contextLength > ContextThreshold
                      /\ Len(ParseOutcome(u.file).value.placeholders) > 0
                   THEN "awaitingModel" ELSE "analyzed"]}
  /\ UNCHANGED <<store, timers, readers, questionCalls, showSignatureUpload,
                 uploadError, uploadCount, hfToken, session>>
  /\ UNCHANGED engineVars

\* every hf.textGeneration call of the analysis has answered or failed
ModelSettles(u) ==
  /\ u \in uploads
  /\ u.stage = "awaitingModel"
  /\ uploads' = (uploads \ {u}) \cup {[file |-> u.file, stage |-> "analyzed"]}
  /\ UNCHANGED <<store, timers, readers, questionCalls, showSignatureUpload,
                 uploadError, uploadCount, hfToken, session>>
  /\ UNCHANGED engineVars

\* the rest of handleFile, and the effect that asks the first question
StoreUpload(u) ==
  /\ u \in uploads
  /\ u.stage = "analyzed"
  /\ uploads' = uploads \ {u}
  /\ \E st \in {StoreAfterUpload(store, u.file)} :
     \E r \in {IF FirstQuestionDue(st)
               THEN askNextQuestion(st, Closure(st, session + 1), hfToken)
               ELSE [store |-> st, timer |-> FALSE, call |-> NoKey]} :
        /\ store' = r.store
        /\ timers' = timers \cup (IF r.timer THEN {Closure(st, session + 1)} ELSE {})
        /\ questionCalls' = questionCalls \cup (IF r.call # NoKey
                                                 THEN {[key |-> r.call, session |-> session + 1]}
                                                 ELSE {})
  /\ showSignatureUpload' = SignatureEffect(store, store', showSignatureUpload)
  /\ session' = session + 1
  /\ UNCHANGED <<readers, uploadError, uploadCount, hfToken>>
  /\ UNCHANGED engineVars

\* the user sends the chat form
HandleSubmit(inputValue) ==
  /\ ChatVisible(store)
  /\ ~allQuestionsAnswered(store)
  /\ ~showSignatureUpload
  /\ Len(store.messages) < MaxMessages
  /\ \E r \in {handleSubmit(store, Closure(store, session), inputValue)} :
        /\ store' = r.store
        /\ IF r.timer
           THEN /\ Cardinality(timers \cup {Closure(store, session)}) + Cardinality(readers) <= MaxPending
                /\ timers' = timers \cup {Closure(store, session)}
           ELSE timers' = timers
  /\ showSignatureUpload' = SignatureEffect(store, store', showSignatureUpload)
  /\ UNCHANGED <<uploads, readers, questionCalls, uploadError, uploadCount, hfToken, session>>
  /\ UNCHANGED engineVars

\* the user types or draws a signature
SubmitSignature(signatureData) ==
  /\ ChatVisible(store)
  /\ ~allQuestionsAnswered(store)
  /\ showSignatureUpload
  /\ Len(store.messages) < MaxMessages
  /\ \E r \in {onSignatureUpload(store, Closure(store, session), signatureData)} :
        /\ store' = r.store
        /\ IF r.timer
           THEN /\ Cardinality(timers \cup {Closure(store, session)}) + Cardinality(readers) <= MaxPending
                /\ timers' = timers \cup {Closure(store, session)}
           ELSE timers' = timers
  /\ showSignatureUpload' = SignatureEffect(store, store', FALSE)
  /\ UNCHANGED <<uploads, readers, questionCalls, uploadError, uploadCount, hfToken, session>>
  /\ UNCHANGED engineVars

\* the user picks a signature image: FileReader starts to load it
SelectSignatureImage ==
  /\ ChatVisible(store)
  /\ ~allQuestionsAnswered(store)
  /\ showSignatureUpload
  /\ Cardinality(readers \cup {Closure(store, session)}) + Cardinality(timers) <= MaxPending
  /\ readers' = readers \cup {Closure(store, session)}
  /\ UNCHANGED <<store, uploads, timers, questionCalls, showSignatureUpload,
                 uploadError, uploadCount, hfToken, session>>
  /\ UNCHANGED engineVars

\* reader.onload: the callback of the render that started the load runs
ReaderLoads(c) ==
  /\ c \in readers
  /\ Len(store.messages) < MaxMessages
  /\ readers' = readers \ {c}
  /\ \E r \in {onSignatureUpload(store, c, ImageData)} :
        /\ store' = r.store
        /\ IF r.timer
           THEN /\ Cardinality(timers \cup {c}) + Cardinality(readers') <= MaxPending
                /\ timers' = timers \cup {c}
           ELSE timers' = timers
        /\ showSignatureUpload' =
             SignatureEffect(store, store',
                             IF r.store = store THEN showSignatureUpload ELSE FALSE)
  /\ UNCHANGED <<uploads, questionCalls, uploadError, uploadCount, hfToken, session>>
  /\ UNCHANGED engineVars

\* a setTimeout(askNextQuestion) callback runs
TimerFires(c) ==
  /\ c \in timers
  /\ \E r \in {askNextQuestion(store, c, hfToken)} :
        /\ store' = r.store
        /\ timers' = (timers \ {c}) \cup (IF r.timer THEN {c} ELSE {})
        /\ questionCalls' = questionCalls \cup (IF r.call # NoKey
                                                 THEN {[key |-> r.call, session |-> c.session]}
                                                 ELSE {})
  /\ showSignatureUpload' = SignatureEffect(store, store', showSignatureUpload)
  /\ UNCHANGED <<uploads, readers, uploadError, uploadCount, hfToken, session>>
  /\ UNCHANGED engineVars

\* generateQuestionForPlaceholder returns to the askNextQuestion awaiting it
QuestionGenerated(call) ==
  /\ call \in questionCalls
  /\ questionCalls' = questionCalls \ {call}
  /\ store' = addMessage(store, AssistantMessage(call.key))
  /\ UNCHANGED <<uploads, timers, readers, showSignatureUpload, uploadError,
                 uploadCount, hfToken, session>>
  /\ UNCHANGED engineVars

\* the "Reset", "New Document" and "Try Another Document" buttons
Reset ==
  /\ store' = reset(store)
  /\ showSignatureUpload' = SignatureEffect(store, store', showSignatureUpload)
  /\ session' = IF store.uploadedFile = NoFile THEN session ELSE session + 1
  /\ UNCHANGED <<uploads, timers, readers, questionCalls, uploadError,
                 uploadCount, hfToken>>
  /\ UNCHANGED engineVars

NextSession ==
  \/ \E file \in SessionFiles : HandleFile(file)
  \/ \E u \in uploads : ParseThrows(u)
  \/ \E u \in uploads : ParseReturns(u)
  \/ \E u \in uploads : ModelSettles(u)
  \/ \E u \in uploads : StoreUpload(u)
  \/ \E inputValue \in TextInputs : HandleSubmit(inputValue)
  \/ \E signatureData \in SignatureInputs : SubmitSignature(signatureData)
  \/ SelectSignatureImage
  \/ \E c \in readers : ReaderLoads(c)
  \/ \E c \in timers : TimerFires(c)
  \/ \E call \in questionCalls : QuestionGenerated(call)
  \/ Reset

SpecSession == InitSession /\ [][NextSession]_vars


\* the event loop runs every callback that is ready: mammoth returns or
\* throws, handleFile resumes after an await that has settled, timers and
\* file loads fire; nothing makes the model service answer, and nothing
\* makes the user act
SpecSessionFair ==
  /\ SpecSession
  /\ WF_vars(\E u \in uploads : ParseThrows(u))
  /\ WF_vars(\E u \in uploads : ParseReturns(u))
  /\ WF_vars(\E u \in uploads : StoreUpload(u))
  /\ WF_vars(\E c \in timers : TimerFires(c))
  /\ WF_vars(\E c \in readers : ReaderLoads(c))

----------------------------------------------------------------------------
(* Session properties                                                      *)

\* a step in which handleFile ends without a document: the file name is
\* rejected or parseDocument throws
UploadFails ==
  \/ \E u \in uploads : ParseThrows(u)
  \/ \E file \in SessionFiles : ~EndsWith(file.name, <<".","d","o","c","x">>) /\ HandleFile(file)

\* a step in which handleFile stores a document without placeholders
EmptyDocumentStored ==
  \E u \in uploads : u.file.parsed.placeholders = <<>> /\ StoreUpload(u)

\* C13: an input that cannot be decoded (unsupported type or decoder
\* failure) makes parseDocument throw and return nothing, and the upload
\* handler leaves the placeholders, the format map and the answers of the
\* session as they were; a document with zero placeholders is no error and
\* gives the empty schema.
C13_FailedUploadLeavesSession ==
  [][/\ \A file \in ParseInputs :
          IF file.kind \notin SupportedKinds \/ ~file.decodable
          THEN ParseOutcome(file) = [threw |-> TRUE, value |-> NoRun]
          ELSE /\ ~ParseOutcome(file).threw
               /\ ParseOutcome(file).value.placeholders = file.parsed.placeholders
     /\ UploadFails =>
          /\ store'.placeholders = store.placeholders
          /\ store'.placeholderFormatMap = store.placeholderFormatMap
          /\ store'.filledValues = store.filledValues
     /\ EmptyDocumentStored =>
          /\ store'.placeholders = <<>>
          /\ store'.uploadedFile # NoFile
          /\ uploadError' = uploadError
    ]_vars

\* an upload has failed and the session holds a schema and an answer
C13_Witness ==
  /\ uploadError = "failed"
  /\ uploads = {}
  /\ store.placeholders # <<>>
  /\ store.filledValues # <<>>

\* C15: after any sequence of uploads, text answers, signature answers and
\* resets every key of the answers map is a key of the schema.
C15_AnswersWithinSchema ==
  KeysOf(store.filledValues) \subseteq Range(store.placeholders)

\* a later session holds an answer while a callback of an earlier session,
\* whose schema was another one, is still pending
C15_Witness ==
  /\ store.filledValues # <<>>
  /\ \E c \in timers \cup readers :
       c.session # session /\ c.placeholders # store.placeholders

\* C20: the download button is enabled only when every placeholder has a
\* non-empty answer; with an unanswered placeholder it is disabled.
C20_DownloadOnlyWhenComplete ==
  allFieldsFilled(store) =>
    \A n \in 1..Len(store.placeholders) :
      HasAnswer(store.filledValues, store.placeholders[n])

\* the button is enabled after the three answers of the three-field document
C20_Witness ==
  allFieldsFilled(store) /\ Len(store.placeholders) = 3

SessionUntouched ==
  /\ store'.messages = store.messages
  /\ store'.filledValues = store.filledValues

\* C17: a new upload or a reset discards the previous session: right after
\* it the answers map is empty and currentQuestionIndex is 0, and no timer,
\* signature load or question call of an earlier session adds an answer or
\* a chat message to the session that follows.
C17_PreviousSessionDiscarded ==
  [][/\ session' # session =>
          store'.filledValues = <<>> /\ store'.currentQuestionIndex = 0
     /\ \A c \in timers : (c.session # session /\ TimerFires(c)) => SessionUntouched
     /\ \A c \in readers : (c.session # session /\ ReaderLoads(c)) => SessionUntouched
     /\ \A call \in questionCalls :
          (call.session # session /\ QuestionGenerated(call)) => SessionUntouched
    ]_vars

\* the keys the assistant has asked for in this session, in posting order
IsQuestion(m) == m.type = "assistant" /\ m.placeholder # NoKey

QuestionsPosted ==
  LET asked == SelectSeq(store.messages, IsQuestion)
  IN [n \in 1..Len(asked) |-> asked[n].placeholder]

\* C19: questions are posted one at a time in schema order: the placeholders
\* asked for have strictly increasing schema positions and none is asked for
\* twice, whatever the timing of the submissions and the ask timers.
C19_QuestionsInSchemaOrder ==
  \A i, j \in 1..Len(QuestionsPosted) :
    i < j => IndexOf(store.placeholders, QuestionsPosted[i])
               < IndexOf(store.placeholders, QuestionsPosted[j])

\* a call of handleFile has not returned, or an askNextQuestion awaits the
\* question of generateQuestionForPlaceholder
AwaitingModelOrParser == uploads # {} \/ questionCalls # {}

\* C18: neither the analysis of the placeholders nor the generation of a
\* question waits for the model service without end: every upload that
\* has started finishes, and every question awaited is posted.
C18_NeverBlockedOnModel ==
  AwaitingModelOrParser ~> ~AwaitingModelOrParser

----------------------------------------------------------------------------
(* DocumentPreview.jsx, generatePreview: highlight of the unfilled         *)
(* placeholders, replacement of the answered ones and the pairing of the   *)
(* bracket blanks left in the body with the unanswered blank keys.  The    *)
(* documents previewed hold no brace placeholder and no markup inside a    *)
(* bracket, so the brace patterns and the patterns that need a tag right   *)
(* after the opening bracket find nothing in them.                         *)

FilledMarker == <<"b","a","c","k","g","r","o","u","n","d","-","c","o","l","o","r",":"," ","#","d","4","e","d","d","a">>
UnfilledMarker == <<"b","a","c","k","g","r","o","u","n","d","-","c","o","l","o","r",":"," ","#","f","f","f","3","c","d">>
CurrentMarker == <<"b","a","c","k","g","r","o","u","n","d","-","c","o","l","o","r",":"," ","#","2","1","9","6","f","3">>
AnyMarker == <<"b","a","c","k","g","r","o","u","n","d","-","c","o","l","o","r">>

SpanClose == <<"<","/","s","p","a","n",">">>

FilledSpanOpen ==
  <<"<","s","p","a","n"," ","s","t","y","l","e","=","\"","b","a","c","k","g","r","o","u","n","d","-","c","o","l","o","r",":"," ","#","d","4","e","d","d","a",";"," ","p","a","d","d","i","n","g",":"," ","2","p","x"," ","6","p","x",";"," ","b","o","r","d","e","r","-","r","a","d","i","u","s",":"," ","3","p","x",";"," ","f","o","n","t","-","w","e","i","g","h","t",":"," ","5","0","0",";"," ","c","o","l","o","r",":"," ","#","1","5","5","7","2","4",";"," ","b","o","r","d","e","r",":"," ","1","p","x"," ","s","o","l","i","d"," ","#","c","3","e","6","c","b",";","\"",">">>

UnfilledSpanOpen ==
  <<"<","s","p","a","n"," ","s","t","y","l","e","=","\"","b","a","c","k","g","r","o","u","n","d","-","c","o","l","o","r",":"," ","#","f","f","f","3","c","d",";"," ","p","a","d","d","i","n","g",":"," ","2","p","x"," ","6","p","x",";"," ","b","o","r","d","e","r","-","r","a","d","i","u","s",":"," ","3","p","x",";"," ","b","o","r","d","e","r",":"," ","1","p","x"," ","d","a","s","h","e","d"," ","#","f","f","c","1","0","7",";"," ","c","o","l","o","r",":"," ","#","8","5","6","4","0","4",";"," ","f","o","n","t","-","s","t","y","l","e",":"," ","i","t","a","l","i","c",";"," ","f","o","n","t","-","w","e","i","g","h","t",":"," ","5","0","0",";","\"",">">>

CurrentSpanOpen ==
  <<"<","s","p","a","n"," ","i","d","=","\"","c","u","r","r","e","n","t","-","q","u","e","s","t","i","o","n","-","h","i","g","h","l","i","g","h","t","\""," ","s","t","y","l","e","=","\"","b","a","c","k","g","r","o","u","n","d","-","c","o","l","o","r",":"," ","#","2","1","9","6","f","3",";"," ","p","a","d","d","i","n","g",":"," ","4","p","x"," ","8","p","x",";"," ","b","o","r","d","e","r","-","r","a","d","i","u","s",":"," ","4","p","x",";"," ","b","o","r","d","e","r",":"," ","2","p","x"," ","s","o","l","i","d"," ","#","1","9","7","6","d","2",";"," ","c","o","l","o","r",":"," ","#","f","f","f",";"," ","f","o","n","t","-","w","e","i","g","h","t",":"," ","b","o","l","d",";"," ","a","n","i","m","a","t","i","o","n",":"," ","p","u","l","s","e"," ","2","s"," ","i","n","f","i","n","i","t","e",";","\"",">">>

SignatureImage(value) ==
  <<"<","i","m","g"," ","s","r","c","=","\"">> \o value \o
  <<"\""," ","a","l","t","=","\"","S","i","g","n","a","t","u","r","e","\""," ","s","t","y","l","e","=","\"","m","a","x","-","w","i","d","t","h",":"," ","2","0","0","p","x",";"," ","m","a","x","-","h","e","i","g","h","t",":"," ","6","0","p","x",";"," ","b","o","r","d","e","r",":"," ","1","p","x"," ","s","o","l","i","d"," ","#","c","3","e","6","c","b",";"," ","b","o","r","d","e","r","-","r","a","d","i","u","s",":"," ","3","p","x",";"," ","v","e","r","t","i","c","a","l","-","a","l","i","g","n",":"," ","m","i","d","d","l","e",";","\""," ","/",">">>

\* the markup an answered placeholder is replaced by
Replacement(value) ==
  IF OccursAt(value, ImageData, 0) THEN SignatureImage(value)
  ELSE FilledSpanOpen \o value \o SpanClose

\* html.substring(Math.max(0, index - n), Math.min(html.length, index + length + n))
CheckArea(s, index, length, n) == Substring(s, Max({0, index - n}), index + length + n)

IsHighlighted(area) ==
  \/ Includes(area, FilledMarker)
  \/ Includes(area, UnfilledMarker)
  \/ Includes(area, CurrentMarker)

\* the matches, given in ascending order as [index, length, replacement], are
\* replaced from the last to the first
RECURSIVE ReplaceMatches(_, _)
ReplaceMatches(s, ms) ==
  IF ms = <<>> THEN s
  ELSE LET m == ms[Len(ms)]
       IN ReplaceMatches(Substring(s, 0, m.index) \o m.replacement
                           \o Substring(s, m.index + m.length, Len(s)),
                         SubSeq(ms, 1, Len(ms) - 1))

\* s.replace(/<[^>]*>/g, '')
RECURSIVE StripTags(_)
StripTags(s) ==
  IF s = <<>> THEN <<>>
  ELSE IF Head(s) = "<" /\ \E k \in 2..Len(s) : s[k] = ">"
       THEN StripTags(SubSeq(s, Min({k \in 2..Len(s) : s[k] = ">"}) + 1, Len(s)))
       ELSE <<Head(s)>> \o StripTags(Tail(s))

\* s.replace(/[[\]{}]/g, '')
IsNoBracket(c) == c \notin {"[", "]", "{", "}"}

StripBrackets(s) == SelectSeq(s, IsNoBracket)

\* /\[[^[\]]*([a-zA-Z_][a-zA-Z0-9_\s-]*)[^[\]]*\]/gi at offset i: the end
\* (exclusive) of the match, or -1
BracketMatchEnd(s, i) ==
  IF i < Len(s) /\ s[i + 1] = "["
  THEN LET e == RunEndNot(s, i + 1, {"[", "]"})
       IN IF e < Len(s) /\ s[e + 1] = "]"
             /\ \E k \in (i + 2)..e : s[k] \in IdentStart
          THEN e + 1 ELSE -1
  ELSE -1

\* the key STEP 1 reads from a match
HighlightKey(fullMatch) == NormalizeName(Trim(StripBrackets(StripTags(fullMatch))))

\* STEP 1: is the match at offset i collected for highlighting
IsUnfilledMatch(s, values, i) ==
  /\ BracketMatchEnd(s, i) # -1
  /\ LET fullMatch == Substring(s, i, BracketMatchEnd(s, i))
         placeholderKey == HighlightKey(fullMatch)
     IN /\ Len(placeholderKey) >= 2
        /\ ~IsBlankKey(placeholderKey)
        /\ ~IsBlankRun(placeholderKey)
        /\ ~IsHighlighted(CheckArea(s, i, Len(fullMatch), 50))
        /\ ~HasAnswer(values, placeholderKey)

\* the highlight of one unfilled match
HighlightOf(fullMatch, currentPlaceholder) ==
  IF ToLowerCase(currentPlaceholder) = ToLowerCase(HighlightKey(fullMatch))
  THEN CurrentSpanOpen \o fullMatch \o SpanClose
  ELSE UnfilledSpanOpen \o fullMatch \o SpanClose

\* STEP 1 of generatePreview
HighlightUnfilledIn(s, values, currentPlaceholder) ==
  LET offs == SeqOfSet({i \in 0..Len(s) : IsUnfilledMatch(s, values, i)})
  IN ReplaceMatches(s,
       [n \in 1..Len(offs) |->
          LET fullMatch == Substring(s, offs[n], BracketMatchEnd(s, offs[n]))
          IN [index |-> offs[n], length |-> Len(fullMatch),
              replacement |-> HighlightOf(fullMatch, currentPlaceholder)]])

\* the '$' that goes with the blank at offset index: the nearest one at most
\* lookback characters before it with no highlight in front of it, or -1
DollarIndex(s, index, lookback) ==
  LET found == {k \in Max({0, index - lookback})..(index - 1) :
                  /\ s[k + 1] = "$"
                  /\ ~Includes(Substring(s, Max({0, k - 50}), k + 5), AnyMarker)}
  IN IF found = {} THEN -1 ELSE Max(found)

\* the blank matches of /\[[_-]{3,}\]/g with no filled marker within window
\* characters around them, in ascending order
UnfilledBlankMatches(s, window, lookback) ==
  LET offs == SeqOfSet({i \in 0..Len(s) :
                          /\ BlankMatchEnd(s, i) # -1
                          /\ ~Includes(CheckArea(s, i, BlankMatchEnd(s, i) - i, window),
                                       FilledMarker)})
  IN [n \in 1..Len(offs) |->
        [index |-> offs[n], length |-> BlankMatchEnd(s, offs[n]) - offs[n],
         dollarIndex |-> DollarIndex(s, offs[n], lookback)]]

findUnfilledBlanks(s) == UnfilledBlankMatches(s, 50, 20)

\* number of unanswered blank keys in front of position n (0-based) of keys
UnfilledBefore(keys, values, n) ==
  Cardinality({i \in 1..n : ~HasAnswer(values, keys[i])})

\* STEP 2, blank key: the blank at the key's rank among the unfilled blanks
\* of the current body is replaced, with its '$' where it has one
ReplaceBlankInPreview(s, placeholders, values, entry) ==
  LET allBlanksInOrder == BlanksOf(placeholders)
      placeholderIndex == IndexOf(allBlanksInOrder, entry.key)
      unfilledBlanks == findUnfilledBlanks(s)
      unfilledIndex == UnfilledBefore(allBlanksInOrder, values, placeholderIndex)
  IN IF placeholderIndex = -1 \/ unfilledIndex >= Len(unfilledBlanks) THEN s
     ELSE LET targetBlank == unfilledBlanks[unfilledIndex + 1]
              from == IF targetBlank.dollarIndex # -1 THEN targetBlank.dollarIndex
                      ELSE targetBlank.index
          IN Substring(s, 0, from) \o Replacement(entry.value)
               \o Substring(s, targetBlank.index + targetBlank.length, Len(s))

\* placeholderFormatMap.get(normalizedKey), or the formats of a key that
\* differs in case only
PreviewFormatsOf(formatMap, key) ==
  IF key \in DOMAIN formatMap THEN formatMap[key]
  ELSE IF \E k \in DOMAIN formatMap : ToLowerCase(k) = ToLowerCase(key)
       THEN formatMap[CHOOSE k \in DOMAIN formatMap : ToLowerCase(k) = ToLowerCase(key)]
       ELSE <<>>

\* STEP 2, named key, one original format: its occurrences (ignoring case)
\* with no highlight within 50 characters are replaced
ReplaceFormatInPreview(s, format, value) ==
  LET offs == SeqOfSet({i \in 0..Len(s) :
                          /\ OccursAtCI(s, format, i)
                          /\ ~IsHighlighted(CheckArea(s, i, Len(format), 50))})
  IN ReplaceMatches(s, [n \in 1..Len(offs) |->
                          [index |-> offs[n], length |-> Len(format),
                           replacement |-> Replacement(value)]])

RECURSIVE ReplaceFormatsInPreview(_, _, _)
ReplaceFormatsInPreview(s, formats, value) ==
  IF formats = <<>> THEN s
  ELSE ReplaceFormatsInPreview(ReplaceFormatInPreview(s, Head(formats), value),
                               Tail(formats), value)

\* generateCaseVariations up to case: the key, the key with spaces and the
\* key with hyphens for its underscores
KeyVariations(key) ==
  { key,
    [i \in 1..Len(key) |-> IF key[i] = "_" THEN " " ELSE key[i]],
    [i \in 1..Len(key) |-> IF key[i] = "_" THEN "-" ELSE key[i]] }

\* new RegExp(`\\[\\s*${escapedKey}\\s*\\]`, 'gi') at offset i: the end of
\* the match, or -1
VariationMatchEnd(s, i, keyVar) ==
  IF i < Len(s) /\ s[i + 1] = "["
  THEN LET ends == {RunEnd(s, a + Len(keyVar), Whitespace) + 1 :
                      a \in {a \in (i + 1)..RunEnd(s, i + 1, Whitespace) :
                               /\ OccursAtCI(s, keyVar, a)
                               /\ LET e == RunEnd(s, a + Len(keyVar), Whitespace)
                                  IN e < Len(s) /\ s[e + 1] = "]"}}
       IN IF ends = {} THEN -1 ELSE Max(ends)
  ELSE -1

\* STEP 2, generic square bracket patterns: every bracketed variation of the
\* key in the body is replaced
ReplaceVariations(s, key, value) ==
  LET endOf(i) == Max({VariationMatchEnd(s, i, v) : v \in KeyVariations(key)})
      offs == SeqOfSet({i \in 0..Len(s) : endOf(i) # -1})
  IN ReplaceMatches(s, [n \in 1..Len(offs) |->
                          [index |-> offs[n], length |-> endOf(offs[n]) - offs[n],
                           replacement |-> Replacement(value)]])

\* STEP 2: the body of Object.entries(filledValues).forEach for one entry
ReplaceEntry(s, placeholders, formatMap, values, entry) ==
  IF IsEmptyValue(entry.value) THEN s
  ELSE ReplaceVariations(
         IF IsBlankKey(entry.key)
         THEN ReplaceBlankInPreview(s, placeholders, values, entry)
         ELSE ReplaceFormatsInPreview(s, PreviewFormatsOf(formatMap, entry.key),
                                      entry.value),
         entry.key, entry.value)

findUnfilledBlanksForHighlight(s) == UnfilledBlankMatches(s, 100, 50)

\* unfilledPlaceholderKeys: the blank keys without an answer, in schema order
RECURSIVE UnfilledPlaceholderKeys(_, _)
UnfilledPlaceholderKeys(keys, values) ==
  IF keys = <<>> THEN <<>>
  ELSE (IF HasAnswer(values, Head(keys)) THEN <<>> ELSE <<Head(keys)>>)
         \o UnfilledPlaceholderKeys(Tail(keys), values)

\* unfilledBlanks.forEach: blankToPlaceholderMap as a function from the
\* position (1-based) of a blank in unfilledBlanks to its key
PairBlanks(unfilledBlanks, unfilledKeys) ==
  [n \in {n \in 1..Len(unfilledBlanks) :
            n <= Len(unfilledKeys) \/ (n = 1 /\ Len(unfilledKeys) > 0)} |->
     IF n <= Len(unfilledKeys) THEN unfilledKeys[n] ELSE unfilledKeys[1]]

\* the closing verification: an unanswered blank_0 that no blank is paired
\* with takes the first unfilled blank when that blank has no key yet
ForceFirstBlank(map, allBlanksInOrder, values, unfilledBlanks) ==
  IF /\ allBlanksInOrder # <<>>
     /\ allBlanksInOrder[1] = <<"b","l","a","n","k","_","0">>
     /\ ~HasAnswer(values, <<"b","l","a","n","k","_","0">>)
     /\ <<"b","l","a","n","k","_","0">> \notin Range(map)
     /\ unfilledBlanks # <<>>
     /\ 1 \notin DOMAIN map
  THEN [n \in DOMAIN map \cup {1} |-> IF n = 1 THEN <<"b","l","a","n","k","_","0">> ELSE map[n]]
  ELSE map

\* blankToPlaceholderMap of one recompute
blankToPlaceholderMap(s, placeholders, values) ==
  LET allBlanksInOrder == BlanksOf(placeholders)
      unfilledBlanks == findUnfilledBlanksForHighlight(s)
  IN ForceFirstBlank(
       PairBlanks(unfilledBlanks, UnfilledPlaceholderKeys(allBlanksInOrder, values)),
       allBlanksInOrder, values, unfilledBlanks)

MaxPreviewFragments == 3

PreviewFragments == << <<"[","_","_","_","]">>, <<"$">>, <<"x"," ">>, <<"[","a","b","]">>, <<"[","A","-","B","]">> >>

RECURSIVE PreviewFragmentDocs(_)
PreviewFragmentDocs(n) ==
  IF n = 0 THEN {<<>>}
  ELSE LET shorter == PreviewFragmentDocs(n - 1)
       IN shorter \cup {d \o PreviewFragments[i] :
                          d \in shorter, i \in 1..Len(PreviewFragments)}

\* every document previewed starts with a word: no placeholder is at offset 0
\* of the text
PreviewDocs == {<<"x"," ">> \o d : d \in PreviewFragmentDocs(MaxPreviewFragments)}

InitPreview == InitUpload(PreviewDocs)

\* the store the preview is computed from: the first n placeholders are
\* answered, in the order the questions are asked, and the question asked is
\* the next one (the last one when every question is answered)
StoreAnswered(placeholders, n) ==
  [filledValues |-> [i \in 1..n |-> [key |-> placeholders[i], value |-> <<"A">>]],
   currentPlaceholder |->
     IF placeholders = <<>> THEN NoKey
     ELSE placeholders[Min({n + 1, Len(placeholders)})]]

\* the effect of DocumentPreview runs for a parsed document
StartPreview ==
  /\ pc = "parsed"
  /\ \E n \in 0..Len(sortedPlaceholders) :
       \E st \in {StoreAnswered(sortedPlaceholders, n)} :
         preview' = [html |-> html, filledValues |-> st.filledValues,
                     currentPlaceholder |-> st.currentPlaceholder,
                     entry |-> 1, unfilledBlanks |-> <<>>,
                     blankToPlaceholderMap |-> <<>>]
  /\ pc' = "highlight"
  /\ UNCHANGED <<parseVars, fillVars, previousRun, sessionVars>>

\* STEP 1
HighlightUnfilled ==
  /\ pc = "highlight"
  /\ \E h \in {IF sortedPlaceholders = <<>> THEN preview.html
               ELSE HighlightUnfilledIn(preview.html, preview.filledValues,
                                        preview.currentPlaceholder)} :
       preview' = [preview EXCEPT !.html = h]
  /\ pc' = "replace"
  /\ UNCHANGED <<parseVars, fillVars, previousRun, sessionVars>>

\* STEP 2, one entry of filledValues
ReplaceFilled ==
  /\ pc = "replace"
  /\ preview.entry <= Len(preview.filledValues)
  /\ \E h \in {ReplaceEntry(preview.html, sortedPlaceholders, placeholderFormatMap,
                            preview.filledValues,
                            preview.filledValues[preview.entry])} :
       preview' = [preview EXCEPT !.html = h, !.entry = @ + 1]
  /\ UNCHANGED <<pc, parseVars, fillVars, previousRun, sessionVars>>

\* the pairing of the blanks left in the body with the unanswered blank keys
MapBlanks ==
  /\ pc = "replace"
  /\ preview.entry > Len(preview.filledValues)
  /\ \E u \in {findUnfilledBlanksForHighlight(preview.html)} :
       \E m \in {blankToPlaceholderMap(preview.html, sortedPlaceholders,
                                       preview.filledValues)} :
         preview' = [preview EXCEPT !.unfilledBlanks = u,
                                    !.blankToPlaceholderMap = m]
  /\ pc' = "previewed"
  /\ UNCHANGED <<parseVars, fillVars, previousRun, sessionVars>>

NextPreview ==
  \/ NextParse
  \/ StartPreview
  \/ HighlightUnfilled
  \/ ReplaceFilled
  \/ MapBlanks

SpecPreview == InitPreview /\ [][NextPreview]_vars

----------------------------------------------------------------------------
(* Preview claims                                                          *)

\* is offset i of the body inside a filled span
InsideFilledSpan(s, i) ==
  \E j \in 0..i :
    /\ OccursAt(s, FilledSpanOpen, j)
    /\ ~\E k \in j..i : OccursAt(s, SpanClose, k)

\* the bracket blanks of the body that no filled span wraps, in body order
UnfilledBodyBlanks ==
  SeqOfSet({i \in 0..Len(preview.html) :
              /\ BlankMatchEnd(preview.html, i) # -1
              /\ ~InsideFilledSpan(preview.html, i)})

UnansweredBlankKeys ==
  UnfilledPlaceholderKeys(BlanksOf(sortedPlaceholders), preview.filledValues)

\* is the body blank at offset i paired with key
PairedWith(i, key) ==
  \E n \in DOMAIN preview.blankToPlaceholderMap :
    /\ preview.unfilledBlanks[n].index = i
    /\ preview.blankToPlaceholderMap[n] = key

\* C14: after a recompute of the preview the I-th unfilled bracket blank of the
\* body is paired with the I-th unanswered blank key of the schema, and when
\* there is at least one of each the first unfilled blank is paired with the
\* first unanswered key.
C14_BlanksPairedInOrder ==
  pc = "previewed" =>
    /\ \A n \in 1..Min({Len(UnfilledBodyBlanks), Len(UnansweredBlankKeys)}) :
         PairedWith(UnfilledBodyBlanks[n], UnansweredBlankKeys[n])
    /\ (UnfilledBodyBlanks # <<>> /\ UnansweredBlankKeys # <<>>)
         => PairedWith(UnfilledBodyBlanks[1], UnansweredBlankKeys[1])

----------------------------------------------------------------------------
(* documentGenerator.js, generateFilledDocument: the blank pass of its two *)
(* definitions.  The answers handed to it are answers to blank keys, for   *)
(* which the forEach over the named keys returns at once; what is left of  *)
(* the function is the removal of the replacement markers.                 *)

\* occurrenceIndex: the number of blank keys listed before the key that
\* have no answer
GeneratorOccurrenceIndex(placeholders, values, key) ==
  LET at == IndexOf(placeholders, key)
      before == IF at = -1 THEN Len(placeholders) ELSE at
  IN Cardinality({j \in 1..before :
                    IsBlankKey(placeholders[j]) /\ ~HasAnswer(values, placeholders[j])})

\* allBlankMatches: the offsets of /\[[_\-]{3,}\]/g in the body; the second
\* definition leaves out a match with a marker within 50 characters
GeneratorBlankMatches(xml, skipReplaced) ==
  SeqOfSet({i \in 0..Len(xml) :
              /\ BlankMatchEnd(xml, i) # -1
              /\ skipReplaced =>
                   ~Includes(CheckArea(xml, i, BlankMatchEnd(xml, i) - i, 50),
                             ReplacedMarker)})

\* body of sortedBlankPlaceholders.forEach for one entry
GeneratorReplaceBlank(xml, placeholders, values, entry, skipReplaced) ==
  LET occurrenceIndex == GeneratorOccurrenceIndex(placeholders, values, entry.key)
      allBlankMatches == GeneratorBlankMatches(xml, skipReplaced)
  IN IF IsEmptyValue(entry.value) \/ occurrenceIndex >= Len(allBlankMatches) THEN xml
     ELSE LET index == allBlankMatches[occurrenceIndex + 1]
              checkBefore == Substring(xml, Max({0, index - 50}), index)
          IN IF Includes(checkBefore, ReplacedMarker) THEN xml
             ELSE Substring(xml, 0, index) \o entry.value \o ReplacedMarker
                    \o Substring(xml, BlankMatchEnd(xml, index), Len(xml))

\* the positions of pc inside the blank pass of the first and of the second
\* definition
GeneratorBlankPass == {"generatorBlanks1", "generatorBlanks2"}

InitGenerator == InitUpload(FillDocs)

\* entry of generateFilledDocument of documentGenerator.js with the schema
\* of the parse, the body of the document and answers to blank keys
StartGenerator ==
  /\ pc = "parsed"
  /\ docXml' \in DocXmlOf(text)
  /\ filledValues' \in AnswerSeqs(sortedPlaceholders,
                                  Range(BlanksOf(sortedPlaceholders)), MaxAnswers)
  /\ filledXml' = docXml'
  /\ blankQueue' = SortBlanksDescending(BlankEntries(filledValues'),
                                        sortedPlaceholders)
  /\ pc' \in GeneratorBlankPass
  /\ UNCHANGED result
  /\ UNCHANGED parseVars
  /\ UNCHANGED otherVars

\* one iteration of sortedBlankPlaceholders.forEach
GeneratorBlankStep ==
  /\ pc \in GeneratorBlankPass
  /\ blankQueue # <<>>
  /\ \E x \in {GeneratorReplaceBlank(filledXml, sortedPlaceholders, filledValues,
                                     Head(blankQueue), pc = "generatorBlanks2")} :
       filledXml' = x
  /\ blankQueue' = Tail(blankQueue)
  /\ UNCHANGED <<pc, docXml, filledValues, result>>
  /\ UNCHANGED parseVars
  /\ UNCHANGED otherVars

\* the named forEach skips every blank key; the markers are removed and the
\* body is written back
GeneratorFinish ==
  /\ pc \in GeneratorBlankPass
  /\ blankQueue = <<>>
  /\ \E x \in {StripMarkers(filledXml)} : filledXml' = x /\ result' = x
  /\ pc' = "generatorDone"
  /\ UNCHANGED <<docXml, filledValues, blankQueue>>
  /\ UNCHANGED parseVars
  /\ UNCHANGED otherVars

NextGenerator ==
  \/ NextParse
  \/ StartGenerator
  \/ GeneratorBlankStep
  \/ GeneratorFinish

SpecGenerator == InitGenerator /\ [][NextGenerator]_vars

----------------------------------------------------------------------------
(* The preview and the generated document of the same answers              *)

\* the question asked when these answers are stored: the first placeholder
\* without an answer, the last one when there is none
QuestionAsked(placeholders, values) ==
  IF placeholders = <<>> THEN NoKey
  ELSE IF \E i \in 1..Len(placeholders) : ~HasAnswer(values, placeholders[i])
       THEN placeholders[Min({i \in 1..Len(placeholders) :
                                ~HasAnswer(values, placeholders[i])})]
       ELSE placeholders[Len(placeholders)]

\* the effect of DocumentPreview runs with the answers the document was
\* generated from
StartPreviewOfAnswers ==
  /\ pc = "generated"
  /\ preview = NoPreview
  /\ preview' = [html |-> html, filledValues |-> filledValues,
                 currentPlaceholder |-> QuestionAsked(sortedPlaceholders, filledValues),
                 entry |-> 1, unfilledBlanks |-> <<>>,
                 blankToPlaceholderMap |-> <<>>]
  /\ pc' = "highlight"
  /\ UNCHANGED <<parseVars, fillVars, previousRun, sessionVars>>

\* the documents both paths are run on start with a word (no placeholder is
\* at offset 0 of the text) and hold up to MaxBothFragments of these fragments
MaxBothFragments == 2

BothFragments == << <<"[","_","_","_","]">>, <<"[","_","_","_","]">> \o Filler, <<"$","[","_","_","_","]">>, <<"[","a","b","]">> >>

RECURSIVE BothFragmentDocs(_)
BothFragmentDocs(n) ==
  IF n = 0 THEN {<<>>}
  ELSE LET shorter == BothFragmentDocs(n - 1)
       IN shorter \cup {d \o BothFragments[i] :
                          d \in shorter, i \in 1..Len(BothFragments)}

BothDocs == {<<"x"," ">> \o d : d \in BothFragmentDocs(MaxBothFragments)}

InitBothPaths == InitUpload(BothDocs)

NextBothPaths ==
  \/ NextFill
  \/ StartPreviewOfAnswers
  \/ HighlightUnfilled
  \/ ReplaceFilled
  \/ MapBlanks

SpecBothPaths == InitBothPaths /\ [][NextBothPaths]_vars

----------------------------------------------------------------------------
(* generateFilledDocument as one function of its arguments                 *)

RECURSIVE ReplaceBlanks(_, _, _)
ReplaceBlanks(xml, placeholders, queue) ==
  IF queue = <<>> THEN xml
  ELSE ReplaceBlanks(ReplaceBlank(xml, placeholders, Head(queue)), placeholders,
                     Tail(queue))

\* the body generateFilledDocument writes back for these answers: the blank
\* pass, the named pass, the removal of the markers and the final pass, each
\* applied to the body the one before it has produced
GeneratedBody(xml, placeholders, formatMap, entries) ==
  CHOOSE body \in
    {FinalPass(stripped, RemainingPlaceholders(stripped, formatMap, entries)) :
       stripped \in
         {StripMarkers(named) :
            named \in
              {ReplaceAllNamed(blanks, formatMap, entries) :
                 blanks \in
                   {ReplaceBlanks(xml, placeholders,
                                  SortBlanksDescending(BlankEntries(entries),
                                                       placeholders))}}}} : TRUE

----------------------------------------------------------------------------
(* Substitution properties, continued                                      *)

\* the texts a bracket may hold in a returned body when nothing is said
\* about it: the non-empty answers given, escaped
AnswersGiven ==
  {EscapeXml(filledValues[n].value) :
     n \in {m \in 1..Len(filledValues) : ~IsEmptyValue(filledValues[m].value)}}

\* the bodies in which the bracket-blank of rank own holds the answer of key
\* k, every other bracket-blank of rank n-1 and above being left as it is or
\* holding any of the answers given; the currency sign directly before a
\* replaced bracket is kept or taken into the replaced span
RECURSIVE BodiesWithBlankFilled(_, _, _, _, _)
BodiesWithBlankFilled(xml, matches, n, own, k) ==
  IF n > Len(matches) THEN {xml}
  ELSE LET starts == {matches[n].index,
                      IF matches[n].hasDollar THEN matches[n].index + 1
                      ELSE matches[n].index}
           later == BodiesWithBlankFilled(xml, matches, n + 1, own, k)
           fills == IF n - 1 = own THEN {EscapeXml(AnswerOf(k))} ELSE AnswersGiven
       IN {Substring(l, 0, b) \o f \o Substring(l, matches[n].end, Len(l)) :
             l \in later, b \in starts, f \in fills}
          \cup (IF n - 1 = own THEN {} ELSE later)

\* the answered blank keys whose bracket is in the original body
AnsweredBlanksPresent ==
  {k \in Range(BlanksOf(sortedPlaceholders)) :
     IsAnswered(k) /\ BlankNumber(k) < Len(BodyBlanks(docXml))}

\* C21: every blank key that has a non-empty answer and whose bracket is in
\* the body has its answer in place of that bracket in the returned body,
\* whatever the distance between consecutive blanks.
C21_NoAnsweredBlankSkipped ==
  (/\ pc = "generated"
   /\ BlankKeysInOrder
   /\ \A n \in 1..Len(filledValues) : IsBlankKey(filledValues[n].key)
   /\ ~Includes(docXml, ReplacedMarker))
  => \A k \in AnsweredBlanksPresent :
       result \in BodiesWithBlankFilled(docXml, BodyBlanks(docXml), 1,
                                        BlankNumber(k), k)

\* the bodies in which every bracket-blank of rank n-1 and above is as it
\* was or holds the answer of the blank key of its own rank
RECURSIVE BlanksOwnOrUntouched(_, _, _)
BlanksOwnOrUntouched(xml, starts, n) ==
  IF n > Len(starts) THEN {xml}
  ELSE LET k == BlankPrefix \o ToDecimal(n - 1)
           later == BlanksOwnOrUntouched(xml, starts, n + 1)
       IN later \cup
          (IF IsAnswered(k)
           THEN {Substring(l, 0, starts[n]) \o AnswerOf(k)
                   \o Substring(l, BlankMatchEnd(xml, starts[n]), Len(l)) : l \in later}
           ELSE {})

\* C22: in both definitions of documentGenerator.js the bracket picked for a
\* blank key is the key's own original bracket, whichever other blanks are
\* answered or already replaced: every bracket-blank of the returned body is
\* as it was or holds the answer of the blank key of its own rank.
C22_GeneratorIndexDesignatesOwnBracket ==
  (pc = "generatorDone" /\ BlankKeysInOrder /\ ~Includes(docXml, ReplacedMarker))
  => result \in BlanksOwnOrUntouched(docXml, GeneratorBlankMatches(docXml, FALSE), 1)

\* the preview bodies in which every bracket-blank of rank n-1 and above
\* holds the answer of the blank key of its own rank when that key is
\* answered and is as it was otherwise
RECURSIVE PreviewBlanksFilledFrom(_, _, _)
PreviewBlanksFilledFrom(s, starts, n) ==
  IF n > Len(starts) THEN s
  ELSE LET k == BlankPrefix \o ToDecimal(n - 1)
           later == PreviewBlanksFilledFrom(s, starts, n + 1)
       IN IF IsAnswered(k)
          THEN Substring(later, 0, starts[n]) \o Replacement(AnswerOf(k))
                 \o Substring(later, BlankMatchEnd(s, starts[n]), Len(later))
          ELSE later

\* the preview and the generated document were computed from one schema and
\* one answers map, the schema holds blank keys only and the document no
\* currency sign
BothPathsOnBlanks ==
  /\ pc = "previewed"
  /\ preview.filledValues = filledValues
  /\ BlankKeysInOrder
  /\ \A n \in 1..Len(sortedPlaceholders) : IsBlankKey(sortedPlaceholders[n])
  /\ "$" \notin Range(text)
  /\ ~Includes(docXml, ReplacedMarker)

GenerationFillsOwnBrackets == result \in ExpectedBlankFills

PreviewFillsOwnBrackets ==
  preview.html =
    PreviewBlanksFilledFrom(html, SeqOfSet({i \in 0..Len(html) :
                                              BlankMatchEnd(html, i) # -1}), 1)

\* C23: for one schema and one answers map, whichever blanks are answered
\* and in whatever order, the preview holds each blank answer in the original
\* bracket the generated document holds it in, the one of the key's own rank.
C23_PreviewAndGenerationAgree ==
  (BothPathsOnBlanks /\ GenerationFillsOwnBrackets) => PreviewFillsOwnBrackets

\* one of the three strategies finds the surface form in the body
StrategySucceeds(xml, format) ==
  \/ PatternFound(xml, DirectPattern(format))
  \/ PatternFound(xml, SplitPattern(format))
  \/ PatternFound(xml, FlexiblePattern(format))

\* the body after the named entries when, for a key one of whose surface forms
\* was replaced by a strategy, nothing but the first successful strategy of
\* each surface form acts
RECURSIVE FirstStrategyOnly(_, _, _)
FirstStrategyOnly(xml, formatMap, entries) ==
  IF entries = <<>> THEN xml
  ELSE LET e == Head(entries)
           formats == FormatsOf(formatMap, e.key)
           succeeded == /\ ~IsEmptyValue(e.value)
                        /\ ~IsBlankKey(e.key)
                        /\ \E n \in 1..Len(formats) : StrategySucceeds(xml, formats[n])
       IN FirstStrategyOnly(IF succeeded THEN ReplaceFormats(xml, formats, e.value)
                            ELSE ReplaceNamed(xml, formatMap, e),
                            formatMap, Tail(entries))

\* C24: for a surface form of an answered non-blank key only the first
\* strategy that finds a match replaces; once a strategy has succeeded for the
\* key the verification pass does not modify the body again.
C24_FirstSuccessfulStrategyOnly ==
  [][ReplaceNamedStep =>
       filledXml' = FirstStrategyOnly(filledXml, placeholderFormatMap, filledValues)]_vars

\* the insertion orders of the same key/value pairs
InsertionOrders(entries) ==
  {[i \in 1..Len(entries) |-> entries[p[i]]] :
     p \in {q \in [1..Len(entries) -> 1..Len(entries)] :
              \A i, j \in 1..Len(entries) : q[i] = q[j] => i = j}}

\* C25: the body returned depends on the contents of the answers map only:
\* every insertion order of the same key/value pairs gives the same body.
C25_InsertionOrderIrrelevant ==
  (pc = "generated" /\ BlankKeysInOrder) =>
    \A entries \in InsertionOrders(filledValues) :
      GeneratedBody(docXml, sortedPlaceholders, placeholderFormatMap, entries) = result

\* t is s, or s with one bracket-blank, and the currency sign right in front
\* of it when there is one, replaced by replacement
OneBlankWithItsSignReplaced(s, t, replacement) ==
  \/ t = s
  \/ \E b \in 0..Len(s) :
       \E e \in {BlankMatchEnd(s, b), SplitBlankMatchEnd(s, b)} \ {-1} :
         LET from == IF b > 0 /\ s[b] = "$" THEN b - 1 ELSE b
         IN t = Substring(s, 0, from) \o replacement \o Substring(s, e, Len(s))

\* C26: a replaced blank takes with it the bracket-blank and a currency sign
\* immediately in front of it, and no other character of the body, in the
\* generation path and in the preview path.
C26_ReplacedSpanIsBlankAndSign ==
  [][/\ ReplaceBlankStep =>
          OneBlankWithItsSignReplaced(filledXml, filledXml',
            EscapeXml(Head(blankQueue).value) \o ReplacedMarker)
     /\ (ReplaceFilled /\ IsBlankKey(preview.filledValues[preview.entry].key)) =>
          OneBlankWithItsSignReplaced(preview.html, preview'.html,
            Replacement(preview.filledValues[preview.entry].value))]_vars

----------------------------------------------------------------------------
(* DocumentPreview.jsx, generatePreview: highlight of the blanks left in   *)
(* the body and the removals made before the preview is set                *)

\* the markup put around the blank of an unanswered key
BlankHighlight(match, hasDollar, isCurrentQuestion) ==
  (IF isCurrentQuestion THEN CurrentSpanOpen ELSE UnfilledSpanOpen)
    \o (IF hasDollar THEN <<"$">> ELSE <<>>) \o match \o SpanClose

\* for (let i = unfilledBlanks.length - 1; i >= 0; i--): blank i (1-based) and
\* the ones before it; captured is the body the blanks were collected from
RECURSIVE HighlightBlanksFrom(_, _, _, _, _, _, _)
HighlightBlanksFrom(s, captured, unfilledBlanks, map, values, currentPlaceholder, i) ==
  IF i = 0 THEN s
  ELSE LET blank == unfilledBlanks[i]
           mapped == i \in DOMAIN map
           hasDollar == blank.dollarIndex # -1
           match == Substring(captured, blank.index, blank.index + blank.length)
           from == IF hasDollar THEN blank.dollarIndex ELSE blank.index
       IN HighlightBlanksFrom(
            IF ~mapped \/ HasAnswer(values, map[i]) THEN s
            ELSE Substring(s, 0, from)
                   \o BlankHighlight(match, hasDollar, currentPlaceholder = map[i])
                   \o Substring(s, blank.index + blank.length, Len(s)),
            captured, unfilledBlanks, map, values, currentPlaceholder, i - 1)

\* html.lastIndexOf(c)
LastIndexOf(s, c) ==
  IF c \in Range(s) THEN Max({i \in 1..Len(s) : s[i] = c}) - 1 ELSE -1

\* html.replace(/<[^>]*$/, '')
RemoveOpenTagAtEnd(s) ==
  LET opens == {i \in 0..(Len(s) - 1) :
                  s[i + 1] = "<" /\ \A k \in (i + 2)..Len(s) : s[k] # ">"}
  IN IF opens = {} THEN s ELSE Substring(s, 0, Min(opens))

\* start of the section cut off: the tag in front of the nearest '>' that has
\* '<p' in the ten characters before it, at most 300 characters before
\* 'investor:' (the comparisons of a four-character substring with '<p>' and
\* of a five-character one with '<div' never hold)
InvestorSectionStart(s, investorIndex) ==
  LET ends == {i \in Max({0, investorIndex - 300})..(investorIndex - 1) :
                 /\ s[i + 1] = ">"
                 /\ Includes(Substring(s, Max({0, i - 10}), i), <<"<","p">>)
                 /\ \E k \in 0..i : s[k + 1] = "<"}
  IN IF ends = {} THEN investorIndex
     ELSE Max({k \in 0..Max(ends) : s[k + 1] = "<"})

\* removal of everything from the investor section onwards
RemoveInvestorSection(s) ==
  LET investorIndex == SearchCI(s, <<"i","n","v","e","s","t","o","r",":">>)
      cut == Trim(Substring(s, 0, InvestorSectionStart(s, investorIndex)))
      closed == IF LastIndexOf(cut, "<") > LastIndexOf(cut, ">")
                THEN Substring(cut, 0, LastIndexOf(cut, "<")) ELSE cut
  IN IF investorIndex = -1 THEN s ELSE Trim(RemoveOpenTagAtEnd(closed))

\* end of a match at offset i of the pattern removed in pass n, or -1:
\* 1 /<span[^>]*>\[needs value\]<\/span>/gi, 2 /\[needs value\]/gi,
\* 3 /\[________\]/gi, 4 /\[_+\]/g
LeftoverMatchEnd(s, i, n) ==
  IF n = 1
  THEN IF OccursAtCI(s, <<"<","s","p","a","n">>, i)
       THEN LET e == RunEndNot(s, i + 5, {">"})
            IN IF OccursAtCI(s, <<">","[","n","e","e","d","s"," ","v","a","l","u","e","]","<","/","s","p","a","n",">">>, e) THEN e + 21 ELSE -1
       ELSE -1
  ELSE IF n = 2
  THEN IF OccursAtCI(s, <<"[","n","e","e","d","s"," ","v","a","l","u","e","]">>, i) THEN i + 13 ELSE -1
  ELSE IF n = 3
  THEN IF OccursAt(s, <<"[","_","_","_","_","_","_","_","_","]">>, i) THEN i + 10 ELSE -1
  ELSE IF i < Len(s) /\ s[i + 1] = "["
       THEN LET e == RunEnd(s, i + 1, {"_"})
            IN IF e > i + 1 /\ e < Len(s) /\ s[e + 1] = "]" THEN e + 1 ELSE -1
       ELSE -1

\* html.replace(pattern n, ''): the text from offset i on without the matches
\* that start at starts[k] and after, taken left to right without overlap
RECURSIVE RemoveLeftoversFrom(_, _, _, _, _)
RemoveLeftoversFrom(s, i, starts, k, n) ==
  IF k > Len(starts) THEN Substring(s, i, Len(s))
  ELSE IF starts[k] < i THEN RemoveLeftoversFrom(s, i, starts, k + 1, n)
       ELSE Substring(s, i, starts[k])
              \o RemoveLeftoversFrom(s, LeftoverMatchEnd(s, starts[k], n), starts, k + 1, n)

RemoveLeftoversOf(s, n) ==
  RemoveLeftoversFrom(s, 0, SeqOfSet({i \in 0..Len(s) : LeftoverMatchEnd(s, i, n) # -1}),
                      1, n)

\* the four removals that close generatePreview
RemoveLeftovers(s) ==
  RemoveLeftoversOf(RemoveLeftoversOf(RemoveLeftoversOf(RemoveLeftoversOf(s, 1), 2), 3), 4)

\* the loop over unfilledBlanks
HighlightBlanks ==
  /\ pc = "previewed"
  /\ \E h \in {HighlightBlanksFrom(preview.html, preview.html, preview.unfilledBlanks,
                                   preview.blankToPlaceholderMap, preview.filledValues,
                                   preview.currentPlaceholder,
                                   Len(preview.unfilledBlanks))} :
       preview' = [preview EXCEPT !.html = h]
  /\ pc' = "highlighted"
  /\ UNCHANGED <<parseVars, fillVars, previousRun, sessionVars>>

\* removal of the investor section and of the leftovers; setPreviewHtml(html)
SetPreview ==
  /\ pc = "highlighted"
  /\ \E h \in {RemoveLeftovers(RemoveInvestorSection(preview.html))} :
       preview' = [preview EXCEPT !.html = h]
  /\ pc' = "shown"
  /\ UNCHANGED <<parseVars, fillVars, previousRun, sessionVars>>

\* documents with a signature section
ShownDocs == PreviewDocs \cup {<<"x"," ","[","a","b","]"," ","I","N","V","E","S","T","O","R",":"," ","[","a","b","]">>, <<"x"," ","[","_","_","_","]"," ","I","n","v","e","s","t","o","r",":"," ","y">>}

InitShown == InitUpload(ShownDocs)

NextShown ==
  \/ NextPreview
  \/ HighlightBlanks
  \/ SetPreview

SpecShown == InitShown /\ [][NextShown]_vars

----------------------------------------------------------------------------
(* Documents whose blanks meet the rules of the label cascade              *)

LabelDocs ==
  ScenarioDocs \cup
  { <<"$","[","_","_","_","]"," ","(","t","h","e"," ","\"","F","e","e","\"",")"," ","a","n","d"," ","$","[","_","_","_","]">>,
    <<"D","i","s","c","o","u","n","t"," ","$","[","_","_","_","]">>,
    <<"d","a","t","e"," ","$","[","_","_","_","]">>,
    <<"e","f","f","e","c","t","i","v","e"," ","d","a","t","e"," ","[","_","_","_","]"," ","g","o","v","e","r","n","i","n","g"," ","l","a","w">>,
    <<"a"," ","[","_","_","_","]"," ","c","o","r","p","o","r","a","t","i","o","n"," ","g","o","v","e","r","n","i","n","g"," ","l","a","w">>,
    <<"g","o","v","e","r","n","i","n","g"," ","l","a","w"," ","[","_","_","_","]"," ","(","t","h","e"," ","\"","C","o","u","r","t","\"",")">>,
    <<"p","u","r","c","h","a","s","e"," ","a","m","o","u","n","t"," ","[","_","_","_","]"," ","(","t","h","e"," ","\"","T","e","r","m","\"",")">>,
    <<"i","n","v","e","s","t","o","r"," ","n","a","m","e"," ","[","_","_","_","]">>,
    <<"x"," ","[","_","_","_","]"," ","y"," ","[","_","_","_","]">>,
    <<"x"," ","[","a","b","]"," ","y"," ","[","_","_","_","]">> }

InitLabels == InitUpload(LabelDocs)

NextLabels == NextParse

SpecLabels == InitLabels /\ [][NextLabels]_vars

----------------------------------------------------------------------------
(* generateFilledDocument on a body that stores a tab as an element, and   *)
(* with an answer under a key the parse has no surface form for            *)

MaxMissFragments == 2

MissFragments == << <<"[", "A", "\t", "B", "]">>, <<"[","c","d","]">>, <<"[","_","_","_","]">> >>

RECURSIVE MissFragmentDocs(_)
MissFragmentDocs(n) ==
  IF n = 0 THEN {<<>>}
  ELSE LET shorter == MissFragmentDocs(n - 1)
       IN shorter \cup {d \o MissFragments[i] :
                          d \in shorter, i \in 1..Len(MissFragments)}

MissDocs == {<<"x"," ">> \o d : d \in MissFragmentDocs(MaxMissFragments)}

\* the run text with every tab stored as <w:tab/> between two runs, as
\* word/document.xml holds it (mammoth gives the tab back as "\t")
RECURSIVE WithTabElements(_)
WithTabElements(s) ==
  IF s = <<>> THEN <<>>
  ELSE (IF Head(s) = "\t" THEN RunClose \o <<"<","w",":","t","a","b","/",">">> \o RunOpen ELSE <<Head(s)>>)
         \o WithTabElements(Tail(s))

WordXmlOf(t) ==
  DocXmlOf(t) \cup {RunOpen \o WithTabElements(EscapeXml(t)) \o RunClose}

\* a key no document of the session holds
StrangerEntry == [key |-> <<"z","z">>, value |-> <<"Z">>]

\* entry of generateFilledDocument with the body of the file
StartGenerationOfFile ==
  /\ pc = "parsed"
  /\ docXml' \in WordXmlOf(text)
  /\ \E answers \in AnswerSeqs(sortedPlaceholders, Range(sortedPlaceholders), MaxAnswers) :
       filledValues' \in {answers, Append(answers, StrangerEntry)}
  /\ filledXml' = docXml'
  /\ blankQueue' = SortBlanksDescending(BlankEntries(filledValues'),
                                        sortedPlaceholders)
  /\ pc' = "blanks"
  /\ UNCHANGED result
  /\ UNCHANGED parseVars
  /\ UNCHANGED otherVars

InitMiss == InitUpload(MissDocs)

NextMiss ==
  \/ NextParse
  \/ StartGenerationOfFile
  \/ ReplaceBlankStep
  \/ ReplaceNamedStep
  \/ StripStep
  \/ FinalPassStep

SpecMiss == InitMiss /\ [][NextMiss]_vars

\* number of occurrences of needle in s, ignoring case
CountCI(s, needle) == Cardinality({i \in 0..Len(s) : OccursAtCI(s, needle, i)})

\* offsets of the bracket-blanks of s, in ascending order
BlankOffsets(s) == SeqOfSet({i \in 0..Len(s) : BlankMatchEnd(s, i) # -1})

\* the keys of the schema the preview has no answer for
UnansweredInPreview ==
  {sortedPlaceholders[n] : n \in {n \in 1..Len(sortedPlaceholders) :
                                    ~HasAnswer(preview.filledValues, sortedPlaceholders[n])}}

\* the bracket-blank at offset b of s is inside the highlight named by open
CarriesHighlight(s, b, open) ==
  \/ OccursAt(s, open, b - Len(open))
  \/ OccursAt(s, open \o <<"$">>, b - Len(open) - 1)

\* C27: after a preview recompute every occurrence of every unanswered named
\* placeholder and the bracket-blank of every unanswered blank key are still
\* in the preview body, inside a highlight, and the bracket of the current
\* question, when that is an unanswered blank, carries the current-question
\* highlight.
C27_UnansweredStayInPreview ==
  (pc = "shown" /\ BlankKeysInOrder) =>
    /\ \A k \in UnansweredInPreview :
         ~IsBlankKey(k) =>
           \A n \in 1..Len(FormatsOf(placeholderFormatMap, k)) :
             CountCI(preview.html, FormatsOf(placeholderFormatMap, k)[n])
               = CountCI(html, FormatsOf(placeholderFormatMap, k)[n])
    /\ Len(BlankOffsets(preview.html))
         = Cardinality({k \in UnansweredInPreview : IsBlankKey(k)})
    /\ \A n \in 1..Len(BlankOffsets(preview.html)) :
         \/ CarriesHighlight(preview.html, BlankOffsets(preview.html)[n], UnfilledSpanOpen)
         \/ CarriesHighlight(preview.html, BlankOffsets(preview.html)[n], CurrentSpanOpen)
    /\ (IsBlankKey(preview.currentPlaceholder)
        /\ preview.currentPlaceholder \in UnansweredInPreview) =>
         \E n \in 1..Len(BlankOffsets(preview.html)) :
           /\ CarriesHighlight(preview.html, BlankOffsets(preview.html)[n], CurrentSpanOpen)
           /\ n = 1 + Cardinality({k \in UnansweredInPreview :
                                     /\ IsBlankKey(k)
                                     /\ BlankNumber(k) < BlankNumber(preview.currentPlaceholder)})

\* C28: an answer is stored for a placeholder only after the question for
\* that placeholder was posted: every key of the answers map has an assistant
\* message asking for it in the chat, also when the user submits again before
\* the ask timer of the previous answer has fired.
C28_AnswerAfterItsQuestion ==
  \A k \in KeysOf(store.filledValues) :
    \E n \in 1..Len(store.messages) :
      IsQuestion(store.messages[n]) /\ store.messages[n].placeholder = k

\* the text the cascade of a blank at this position looks at
LabelContext(s, position) ==
  LET before == Substring(s, Max({0, position - ContextWindow}), position)
      after == Substring(s, position, Min({Len(s), position + ContextWindow}))
  IN [before |-> before, after |-> after,
      full |-> ToLowerCase(before \o <<" ">> \o after)]

\* the rules of the cascade, in their order: does the rule match, and the
\* label it gives
CascadeRules(s, position) ==
  LET c == LabelContext(s, position)
  IN << \* currency and quoted term
        [applies |-> DollarTermMatch(c.before).found,
         label |-> TitleCase(Trim(DollarTermMatch(c.before).term))],
        \* currency classification
        [applies |-> HasDollarBefore(c.before),
         label |-> IF \/ Includes(c.after, <<"P","o","s","t","-","M","o","n","e","y">>)
                      \/ Includes(c.full, <<"p","o","s","t","-","m","o","n","e","y"," ","v","a","l","u","a","t","i","o","n"," ","c","a","p">>)
                   THEN <<"P","o","s","t","-","M","o","n","e","y"," ","V","a","l","u","a","t","i","o","n"," ","C","a","p">>
                   ELSE IF \/ Includes(c.after, <<"P","u","r","c","h","a","s","e"," ","A","m","o","u","n","t">>)
                           \/ Includes(c.full, <<"p","u","r","c","h","a","s","e"," ","a","m","o","u","n","t">>)
                           \/ Includes(c.before, <<"p","a","y","m","e","n","t"," ","b","y">>)
                           \/ Includes(c.before, <<"e","x","c","h","a","n","g","e"," ","f","o","r">>)
                   THEN <<"P","u","r","c","h","a","s","e"," ","A","m","o","u","n","t">>
                   ELSE IF Includes(c.full, <<"v","a","l","u","a","t","i","o","n"," ","c","a","p">>)
                           /\ ~Includes(c.full, <<"p","o","s","t","-","m","o","n","e","y">>)
                   THEN <<"V","a","l","u","a","t","i","o","n"," ","C","a","p">>
                   ELSE IF Includes(c.full, <<"d","i","s","c","o","u","n","t">>) THEN <<"D","i","s","c","o","u","n","t"," ","R","a","t","e">>
                   ELSE <<"A","m","o","u","n","t">>],
        \* date
        [applies |-> Includes(c.before, <<"o","n"," ","o","r"," ","a","b","o","u","t">>) \/ Includes(c.full, <<"d","a","t","e">>),
         label |-> IF Includes(c.full, <<"s","a","f","e">>) THEN <<"D","a","t","e"," ","o","f"," ","S","a","f","e">>
                   ELSE IF Includes(c.full, <<"e","f","f","e","c","t","i","v","e">>) THEN <<"E","f","f","e","c","t","i","v","e"," ","D","a","t","e">>
                   ELSE <<"D","a","t","e">>],
        \* incorporation
        [applies |-> \/ Includes(c.full, <<"s","t","a","t","e"," ","o","f"," ","i","n","c","o","r","p","o","r","a","t","i","o","n">>)
                     \/ (Includes(c.before, <<"a"," ">>) /\ Includes(c.after, <<"c","o","r","p","o","r","a","t","i","o","n">>)),
         label |-> <<"S","t","a","t","e"," ","o","f"," ","I","n","c","o","r","p","o","r","a","t","i","o","n">>],
        \* governing law
        [applies |-> \/ Includes(c.full, <<"g","o","v","e","r","n","i","n","g"," ","l","a","w">>)
                     \/ Includes(c.full, <<"l","a","w","s"," ","o","f"," ","t","h","e"," ","s","t","a","t","e"," ","o","f">>),
         label |-> <<"G","o","v","e","r","n","i","n","g"," ","L","a","w"," ","J","u","r","i","s","d","i","c","t","i","o","n">>],
        \* trailing quoted term
        [applies |-> QuoteTermMatch(c.after).found,
         label |-> TitleCase(Trim(QuoteTermMatch(c.after).term))],
        \* keyword fallback
        [applies |-> \E w \in {<<"p","u","r","c","h","a","s","e"," ","a","m","o","u","n","t">>, <<"v","a","l","u","a","t","i","o","n"," ","c","a","p">>,
                               <<"p","o","s","t","-","m","o","n","e","y"," ","v","a","l","u","a","t","i","o","n">>, <<"d","i","s","c","o","u","n","t">>,
                               <<"i","n","v","e","s","t","o","r"," ","n","a","m","e">>, <<"c","o","m","p","a","n","y"," ","n","a","m","e">>} :
                       Includes(c.full, w),
         label |-> IF Includes(c.full, <<"p","u","r","c","h","a","s","e"," ","a","m","o","u","n","t">>) THEN <<"P","u","r","c","h","a","s","e"," ","A","m","o","u","n","t">>
                   ELSE IF \/ Includes(c.full, <<"v","a","l","u","a","t","i","o","n"," ","c","a","p">>)
                           \/ Includes(c.full, <<"p","o","s","t","-","m","o","n","e","y"," ","v","a","l","u","a","t","i","o","n">>)
                   THEN <<"P","o","s","t","-","M","o","n","e","y"," ","V","a","l","u","a","t","i","o","n"," ","C","a","p">>
                   ELSE IF Includes(c.full, <<"d","i","s","c","o","u","n","t">>) THEN <<"D","i","s","c","o","u","n","t"," ","R","a","t","e">>
                   ELSE IF Includes(c.full, <<"i","n","v","e","s","t","o","r"," ","n","a","m","e">>) THEN <<"I","n","v","e","s","t","o","r"," ","N","a","m","e">>
                   ELSE <<"C","o","m","p","a","n","y"," ","N","a","m","e">>] >>

\* the label of the first rule that matches, `Field <n>` when none does
FirstMatchingLabel(rules, key) ==
  IF \E n \in 1..Len(rules) : rules[n].applies
  THEN rules[Min({n \in 1..Len(rules) : rules[n].applies})].label
  ELSE <<"F","i","e","l","d"," ">> \o ToDecimal(BlankNumber(key))

MissesBody(xml, formatMap, key) ==
  /\ \A n \in 1..Len(FormatsOf(formatMap, key)) :
       \A pat \in {DirectPattern(FormatsOf(formatMap, key)[n]),
                   SplitPattern(FormatsOf(formatMap, key)[n]),
                   FlexiblePattern(FormatsOf(formatMap, key)[n]),
                   VeryFlexiblePattern(FormatsOf(formatMap, key)[n]),
                   FinalPattern(FormatsOf(formatMap, key)[n])} :
         ~PatternFound(xml, pat)
  /\ FormatsOf(formatMap, key) = <<>> =>
       \A keyVar \in {key, ReplaceUnderscores(key, " "), ReplaceUnderscores(key, "-")} :
         \A n \in 1..Len(FallbackPatterns(keyVar)) :
           ~PatternFound(xml, FallbackPatterns(keyVar)[n])

\* the answers without the one at position n
WithoutEntry(entries, n) ==
  SubSeq(entries, 1, n - 1) \o SubSeq(entries, n + 1, Len(entries))

\* the answered named keys that miss the body
MissingEntries ==
  {n \in 1..Len(filledValues) :
     /\ ~IsBlankKey(filledValues[n].key)
     /\ ~IsEmptyValue(filledValues[n].value)
     /\ MissesBody(docXml, placeholderFormatMap, filledValues[n].key)}

\* C30: when no surface form and no fallback pattern of an answered key
\* matches the body, the substitution ends with a body, and that body is the
\* one the other answers alone give: unchanged for the key, the other keys
\* substituted.
C30_MissLeavesBodyUnchanged ==
  pc = "generated" =>
    \A n \in MissingEntries :
      result = GeneratedBody(docXml, sortedPlaceholders, placeholderFormatMap,
                             WithoutEntry(filledValues, n))

\* a key stored with a tab in its surface form missed the body while another
\* answered key was substituted
C30_Witness ==
  /\ pc = "generated"
  /\ \E n \in MissingEntries : FormatsOf(placeholderFormatMap, filledValues[n].key) # <<>>
  /\ result # docXml
====
